---- MODULE Spec2Model ----
(***************************************************************************)
(* Range queries over stored segments in frigate/http.py: the overlap      *)
(* query, the playback manifest of vod_ts, the preview list of preview_ts  *)
(* and the cached clip of recording_clip with its external ffmpeg run.     *)
(*                                                                         *)
(* Time is counted in ticks; one millisecond is TicksPerMs ticks, so that  *)
(* int(x * 1000) and int(x) truncate as they do on Python floats.  Float   *)
(* rounding error itself is not modelled.                                  *)
(***************************************************************************)
EXTENDS Integers, Sequences, FiniteSets, TLC

\* ------------------------------------------------------------------ bounds
MaxTime == 2
MaxSegs == 2
NumReq == 2
TicksPerMs == 2

\* frigate.const.MAX_SEGMENT_DURATION, in seconds
MAX_SEGMENT_DURATION == 600

Times == 0 .. MaxTime
Workers == 1 .. NumReq
TicksPerSecond == 1000 * TicksPerMs
MaxTicks == MAX_SEGMENT_DURATION * TicksPerSecond

\* cameras that own segments, and a name no segment and no configuration has
StoredCameras == {"cam1", "cam2"}
RequestCameras == {"cam1", "ghost"}
PreviewCameras == RequestCameras \cup {"all"}

VARIABLES recordings, previews, cache, toolRuns, pc, args, local, resp, timeline, events, preview_dir, database, clips_dir, export_dir

\* the Timeline and Event tables, the preview frame directory, the
\* connection state of the database object, and the clips and exports
\* directories
stores == <<timeline, events, preview_dir, database, clips_dir, export_dir>>

vars == <<recordings, previews, cache, toolRuns, pc, args, local, resp, stores>>

\* ------------------------------------------------------- python helpers
\* int(x * 1000) for x in ticks: truncation toward zero
IntMs(t) == IF t >= 0 THEN t \div TicksPerMs ELSE -((-t) \div TicksPerMs)

\* int(x) for x in ticks: whole seconds, truncation toward zero
IntSec(t) == IF t >= 0 THEN t \div TicksPerSecond ELSE -((-t) \div TicksPerSecond)

\* between with the ends left out
between_exclusive(x, lo, hi) == x > lo /\ x < hi

\* peewee's Field.between(lo, hi): SQL BETWEEN, both ends included
between(x, lo, hi) == x >= lo /\ x <= hi

\* ORDER BY start_time ASC: every order of the rows that is ascending in
\* start_time (SQL leaves the order of equal keys open)
order_by_start_time(S) ==
    { q \in [1 .. Cardinality(S) -> S] :
        /\ \A i, j \in 1 .. Cardinality(S) : i # j => q[i] # q[j]
        /\ \A i, j \in 1 .. Cardinality(S) : i < j => q[i].start_time <= q[j].start_time }

\* ------------------------------------------------------------ the tables
Intervals == { iv \in Times \X Times : iv[1] < iv[2] }

\* durations a stored segment may carry: the nominal one, one that rounds
\* to 0 ms, and two at the MAX_SEGMENT_DURATION ceiling
Durations(iv) == { iv[2] - iv[1], 1, MaxTicks - 1, MaxTicks }

Row(cam, iv, d) ==
    [camera |-> cam, path |-> <<"/media/frigate", cam, iv[1], iv[2], d>>,
     start_time |-> iv[1], end_time |-> iv[2], duration |-> d]

RecordingUniverse ==
    UNION { { Row("cam1", iv, d) : d \in Durations(iv) } : iv \in Intervals }
      \cup { Row("cam2", iv, iv[2] - iv[1]) : iv \in Intervals }

PreviewUniverse ==
    { Row(cam, iv, iv[2] - iv[1]) : cam \in StoredCameras, iv \in Intervals }

AtMost(U, n) == { S \in SUBSET U : Cardinality(S) <= n }

\* ----------------------------------------------------------- responses
NotFound(message) ==
    [status |-> 404, body |-> [success |-> FALSE, message |-> message]]

ServerError(message) ==
    [status |-> 500, body |-> [success |-> FALSE, message |-> message]]

NoResponse == [status |-> 0]

NoArgs == [handler |-> "none", camera_name |-> "", start_ts |-> 0, end_ts |-> 0]

NoPath == <<>>

NoLocal ==
    [rows |-> <<>>, playlist_lines |-> <<>>, path |-> NoPath, ran |-> FALSE,
     returncode |-> 0, clobbered |-> FALSE,
     began |-> [succeeded |-> FALSE, inflight |-> FALSE, file |-> "absent",
                peers |-> {}],
     served |-> [file |-> "absent", writing |-> FALSE]]

\* ---------------------------------------------------------------- vod_ts
vod_ts_where(rec, start_ts, end_ts) ==
    \/ between(rec.start_time, start_ts, end_ts)
    \/ between(rec.end_time, start_ts, end_ts)
    \/ (start_ts > rec.start_time /\ end_ts < rec.end_time)

vod_ts_query(camera_name, start_ts, end_ts) ==
    { rec \in recordings :
        vod_ts_where(rec, start_ts, end_ts) /\ rec.camera = camera_name }

max_duration_ms == MAX_SEGMENT_DURATION * 1000

\* the duration with the excess taken off before the conversion to ms:
\* int((duration - (end_time - end_ts)) * 1000)
vod_ts_duration_trimmed_then_int(recording, end_ts) ==
    IF recording.end_time > end_ts
    THEN IntMs(recording.duration - (recording.end_time - end_ts))
    ELSE IntMs(recording.duration)

\* the duration with no trailing trim
vod_ts_duration_untrimmed(recording, end_ts) == IntMs(recording.duration)

\* the duration with the trailing trim made whether or not the segment
\* ends after the window
vod_ts_duration_always_trimmed(recording, end_ts) ==
    IntMs(recording.duration) - IntMs(recording.end_time - end_ts)

vod_ts_duration(recording, end_ts) ==
    LET duration == IntMs(recording.duration)
    IN  IF recording.end_time > end_ts
        THEN duration - IntMs(recording.end_time - end_ts)
        ELSE duration

\* the duration filter with both limits let in
vod_ts_keep_inclusive(duration) == 0 <= duration /\ duration <= max_duration_ms

vod_ts_keep(duration) == 0 < duration /\ duration < max_duration_ms

\* the loop with each clip put in front of the clips found so far
RECURSIVE vod_ts_loop_prepending(_, _, _)
vod_ts_loop_prepending(rows, end_ts, acc) ==
    IF rows = <<>> THEN acc
    ELSE LET recording == Head(rows)
             duration == vod_ts_duration(recording, end_ts)
             clip == [type |-> "source", path |-> recording.path,
                      keyFrameDurations |-> <<duration>>]
         IN  vod_ts_loop_prepending(Tail(rows), end_ts,
                 IF vod_ts_keep(duration)
                 THEN [clips |-> <<clip>> \o acc.clips,
                       durations |-> Append(acc.durations, duration)]
                 ELSE acc)

RECURSIVE vod_ts_loop(_, _, _)
vod_ts_loop(rows, end_ts, acc) ==
    IF rows = <<>> THEN acc
    ELSE LET recording == Head(rows)
             duration == vod_ts_duration(recording, end_ts)
             clip == [type |-> "source", path |-> recording.path,
                      keyFrameDurations |-> <<duration>>]
         IN  vod_ts_loop(Tail(rows), end_ts,
                 IF vod_ts_keep(duration)
                 THEN [clips |-> Append(acc.clips, clip),
                       durations |-> Append(acc.durations, duration)]
                 ELSE acc)

SeqMax(s) == CHOOSE m \in { s[i] : i \in DOMAIN s } : \A i \in DOMAIN s : s[i] <= m

\* the manifest with segment_duration taken from the first clip
Manifest_first_duration(out, cacheable) ==
    [status |-> 200,
     body |-> [cache |-> cacheable,
               discontinuity |-> FALSE,
               consistentSequenceMediaInfo |-> TRUE,
               durations |-> out.durations,
               segment_duration |-> out.durations[1],
               sequences |-> << [clips |-> out.clips] >>]]

Manifest(out, cacheable) ==
    [status |-> 200,
     body |-> [cache |-> cacheable,
               discontinuity |-> FALSE,
               consistentSequenceMediaInfo |-> TRUE,
               durations |-> out.durations,
               segment_duration |-> SeqMax(out.durations),
               sequences |-> << [clips |-> out.clips] >>]]

\* the response with the not-found test made on the rows, not on the
\* clips: max() of no durations then raises
vod_ts_response_tests_rows(rows, end_ts, cacheable) ==
    LET out == vod_ts_loop(rows, end_ts, [clips |-> <<>>, durations |-> <<>>])
    IN  IF rows = <<>> THEN NotFound("No recordings found.")
        ELSE IF out.clips = <<>> THEN ServerError("Internal Server Error")
        ELSE Manifest(out, cacheable)

\* the response with an empty result answered as an empty manifest
vod_ts_response_empty_ok(rows, end_ts, cacheable) ==
    LET out == vod_ts_loop(rows, end_ts, [clips |-> <<>>, durations |-> <<>>])
    IN  IF out.clips = <<>>
        THEN [status |-> 200,
              body |-> [cache |-> cacheable, discontinuity |-> FALSE,
                        consistentSequenceMediaInfo |-> TRUE,
                        durations |-> <<>>, segment_duration |-> 0,
                        sequences |-> << [clips |-> <<>>] >>]]
        ELSE Manifest(out, cacheable)

vod_ts_response(rows, end_ts, cacheable) ==
    LET out == vod_ts_loop(rows, end_ts, [clips |-> <<>>, durations |-> <<>>])
    IN  IF out.clips = <<>>
        THEN NotFound("No recordings found.")
        ELSE Manifest(out, cacheable)

\* The whole handler: the query, the loop and the response.  cacheable is
\* hour_ago.timestamp() > start_ts, decided by the wall clock.
vod_ts(r, camera_name, start_ts, end_ts) ==
    /\ pc[r] = "idle"
    /\ \E rows \in order_by_start_time(vod_ts_query(camera_name, start_ts, end_ts)),
          cacheable \in BOOLEAN :
         /\ local' = [local EXCEPT ![r].rows = rows]
         /\ resp' = [resp EXCEPT ![r] = vod_ts_response(rows, end_ts, cacheable)]
    /\ args' = [args EXCEPT ![r] = [handler |-> "vod_ts", camera_name |-> camera_name,
                                    start_ts |-> start_ts, end_ts |-> end_ts]]
    /\ pc' = [pc EXCEPT ![r] = "done"]
    /\ UNCHANGED <<stores, recordings, previews, cache, toolRuns>>

\* ------------------------------------------------------------ preview_ts
preview_ts_where(rec, start_ts, end_ts) ==
    \/ between(rec.start_time, start_ts, end_ts)
    \/ between(rec.end_time, start_ts, end_ts)
    \/ (start_ts > rec.start_time /\ end_ts < rec.end_time)

camera_clause(rec, camera_name) ==
    IF camera_name # "all" THEN rec.camera = camera_name ELSE TRUE

preview_ts_query(camera_name, start_ts, end_ts) ==
    { rec \in previews :
        preview_ts_where(rec, start_ts, end_ts) /\ camera_clause(rec, camera_name) }

\* preview["path"].replace("/media/frigate", "")
StripMediaRoot(path) ==
    IF Len(path) > 0 /\ Head(path) = "/media/frigate" THEN Tail(path) ELSE path

preview_ts_clips(rows) ==
    [ i \in 1 .. Len(rows) |->
        [camera |-> rows[i].camera, src |-> StripMediaRoot(rows[i].path),
         type |-> "video/mp4", start |-> rows[i].start_time, end |-> rows[i].end_time] ]

preview_ts_response(rows) ==
    IF preview_ts_clips(rows) = <<>>
    THEN NotFound("No previews found.")
    ELSE [status |-> 200, body |-> [clips |-> preview_ts_clips(rows)]]

preview_ts(r, camera_name, start_ts, end_ts) ==
    /\ pc[r] = "idle"
    /\ \E rows \in order_by_start_time(preview_ts_query(camera_name, start_ts, end_ts)) :
         /\ local' = [local EXCEPT ![r].rows = rows]
         /\ resp' = [resp EXCEPT ![r] = preview_ts_response(rows)]
    /\ args' = [args EXCEPT ![r] = [handler |-> "preview_ts", camera_name |-> camera_name,
                                    start_ts |-> start_ts, end_ts |-> end_ts]]
    /\ pc' = [pc EXCEPT ![r] = "done"]
    /\ UNCHANGED <<stores, recordings, previews, cache, toolRuns>>

\* -------------------------------------------------------- recording_clip
recording_clip_where(rec, start_ts, end_ts) ==
    \/ between(rec.start_time, start_ts, end_ts)
    \/ between(rec.end_time, start_ts, end_ts)
    \/ (start_ts > rec.start_time /\ end_ts < rec.end_time)

recording_clip_query(camera_name, start_ts, end_ts) ==
    { rec \in recordings :
        recording_clip_where(rec, start_ts, end_ts) /\ rec.camera = camera_name }

\* the playlist lines with the outpoint counted from the window start
playlist_entry_window_relative(clip, start_ts, end_ts) ==
    << <<"file", clip.path>> >>
      \o (IF clip.start_time < start_ts
          THEN << <<"inpoint", IntSec(start_ts - clip.start_time)>> >> ELSE <<>>)
      \o (IF clip.end_time > end_ts
          THEN << <<"outpoint", IntSec(end_ts - start_ts)>> >> ELSE <<>>)

\* the lines one clip adds to the concat playlist
playlist_entry(clip, start_ts, end_ts) ==
    << <<"file", clip.path>> >>
      \o (IF clip.start_time < start_ts
          THEN << <<"inpoint", IntSec(start_ts - clip.start_time)>> >> ELSE <<>>)
      \o (IF clip.end_time > end_ts
          THEN << <<"outpoint", IntSec(end_ts - clip.start_time)>> >> ELSE <<>>)

RECURSIVE playlist(_, _, _)
playlist(rows, start_ts, end_ts) ==
    IF rows = <<>> THEN <<>>
    ELSE playlist_entry(Head(rows), start_ts, end_ts)
           \o playlist(Tail(rows), start_ts, end_ts)

\* A string whose characters matter is the sequence of its character
\* codes. The characters of a camera name:
Chars(name) ==
    CASE name = "cam1" -> <<99, 97, 109, 49>>
      [] name = "cam10" -> <<99, 97, 109, 49, 48>>
      [] name = "cam2" -> <<99, 97, 109, 50>>
      [] name = "ghost" -> <<103, 104, 111, 115, 116>>

RECURSIVE Digits(_)
Digits(n) ==
    IF n < 10 THEN <<48 + n>> ELSE Digits(n \div 10) \o <<48 + (n % 10)>>

\* A-Z, a-z, 0-9, "_", "." and "-": what _filename_ascii_strip_re keeps
SafeChars == (65 .. 90) \cup (97 .. 122) \cup (48 .. 57) \cup {95, 46, 45}

\* "_".join(filename.split()) after "/" became " ": runs of blanks between
\* words become one "_", blanks at the ends go
RECURSIVE join_split(_, _)
join_split(s, started) ==
    IF s = <<>> THEN <<>>
    ELSE IF Head(s) \in {32, 47}
    THEN IF started /\ \E i \in DOMAIN s : s[i] \notin {32, 47}
         THEN <<95>> \o join_split(Tail(s), FALSE)
         ELSE join_split(Tail(s), started)
    ELSE <<Head(s)>> \o join_split(Tail(s), TRUE)

\* .strip("._")
RECURSIVE strip_dots(_)
strip_dots(s) ==
    IF s = <<>> THEN s
    ELSE IF Head(s) \in {46, 95} THEN strip_dots(Tail(s))
    ELSE IF s[Len(s)] \in {46, 95} THEN strip_dots(SubSeq(s, 1, Len(s) - 1))
    ELSE s

\* werkzeug's secure_filename on an ASCII name
secure_filename(s) ==
    strip_dots(SelectSeq(join_split(s, FALSE), LAMBDA c : c \in SafeChars))

\* secure_filename(f"clip_{camera_name}_{start_ts}-{end_ts}.mp4") under
\* CACHE_DIR, start_ts and end_ts written as the numbers they are here
file_name(camera_name, start_ts, end_ts) ==
    secure_filename(<<99, 108, 105, 112, 95>> \o Chars(camera_name) \o <<95>>
                      \o Digits(start_ts) \o <<45>> \o Digits(end_ts)
                      \o <<46, 109, 112, 52>>)

\* the cache directory maps each file in it to its content, "partial"
\* (not a whole mp4) or "complete"; os.path.exists(path)
exists(path) == path \in DOMAIN cache

FileAt(path) == IF exists(path) THEN cache[path] ELSE "absent"

\* the directory after content was put at path
WriteFile(path, content) ==
    [ p \in DOMAIN cache \cup {path} |-> IF p = path THEN content ELSE cache[p] ]

\* sp.run calls made so far with path as the output
Runs(path) == IF path \in DOMAIN toolRuns THEN toolRuns[path] ELSE 0

\* workers whose ffmpeg has opened the output file at path and not exited
Writers(path) ==
    { w \in Workers : pc[w] = "ffmpeg_writing" /\ local[w].path = path }

\* workers whose ffmpeg run on path has started and not exited
Running(path) ==
    { w \in Workers : pc[w] \in {"ffmpeg_running", "ffmpeg_writing"}
                        /\ local[w].path = path }

\* workers inside recording_clip for path
InProgress(path) ==
    { w \in Workers : pc[w] \notin {"idle", "done"} /\ local[w].path = path }

\* lines 2064-2094: the query, the playlist and the cache path
recording_clip_begin(r, camera_name, start_ts, end_ts) ==
    /\ pc[r] = "idle"
    /\ \E rows \in order_by_start_time(
                      recording_clip_query(camera_name, start_ts, end_ts)) :
         LET path == file_name(camera_name, start_ts, end_ts)
         IN  local' = [local EXCEPT ![r] =
                 [NoLocal EXCEPT
                    !.rows = rows,
                    !.playlist_lines = playlist(rows, start_ts, end_ts),
                    !.path = path,
                    !.began = [succeeded |->
                                 \E w \in Workers :
                                    /\ pc[w] = "done"
                                    /\ args[w].handler = "recording_clip"
                                    /\ local[w].path = path
                                    /\ resp[w].status = 200,
                               inflight |-> Running(path) # {},
                               file |-> FileAt(path),
                               peers |-> InProgress(path)]]]
    /\ args' = [args EXCEPT ![r] = [handler |-> "recording_clip",
                                    camera_name |-> camera_name,
                                    start_ts |-> start_ts, end_ts |-> end_ts]]
    /\ pc' = [pc EXCEPT ![r] = "check_cache"]
    /\ UNCHANGED <<stores, recordings, previews, cache, toolRuns, resp>>

\* the cache test left out: ffmpeg runs on every request
recording_clip_exists_always_runs(r) ==
    /\ pc[r] = "check_cache"
    /\ pc' = [pc EXCEPT ![r] = "ffmpeg_running"]
    /\ local' = [local EXCEPT ![r].ran = TRUE]
    /\ toolRuns' = [ p \in DOMAIN toolRuns \cup {local[r].path} |->
                        IF p = local[r].path THEN Runs(p) + 1 ELSE toolRuns[p] ]
    /\ UNCHANGED <<stores, recordings, previews, cache, args, resp>>

\* the cache test inverted: ffmpeg runs only when the file is there
recording_clip_exists_inverted(r) ==
    /\ pc[r] = "check_cache"
    /\ IF exists(local[r].path)
       THEN /\ pc' = [pc EXCEPT ![r] = "ffmpeg_running"]
            /\ local' = [local EXCEPT ![r].ran = TRUE]
            /\ toolRuns' = [ p \in DOMAIN toolRuns \cup {local[r].path} |->
                                IF p = local[r].path THEN Runs(p) + 1
                                ELSE toolRuns[p] ]
       ELSE /\ pc' = [pc EXCEPT ![r] = "respond"]
            /\ UNCHANGED <<local, toolRuns>>
    /\ UNCHANGED <<stores, recordings, previews, cache, args, resp>>

\* the cache test made to wait while any ffmpeg run, for whatever path,
\* is still going
recording_clip_exists_one_at_a_time(r) ==
    /\ pc[r] = "check_cache"
    /\ \A w \in Workers : pc[w] \notin {"ffmpeg_running", "ffmpeg_writing"}
    /\ IF ~exists(local[r].path)
       THEN /\ pc' = [pc EXCEPT ![r] = "ffmpeg_running"]
            /\ local' = [local EXCEPT ![r].ran = TRUE]
            /\ toolRuns' = [ p \in DOMAIN toolRuns \cup {local[r].path} |->
                                IF p = local[r].path THEN Runs(p) + 1
                                ELSE toolRuns[p] ]
       ELSE /\ pc' = [pc EXCEPT ![r] = "respond"]
            /\ UNCHANGED <<local, toolRuns>>
    /\ UNCHANGED <<stores, recordings, previews, cache, args, resp>>

\* line 2096: os.path.exists(path); when absent, sp.run starts ffmpeg
recording_clip_exists(r) ==
    /\ pc[r] = "check_cache"
    /\ IF ~exists(local[r].path)
       THEN /\ pc' = [pc EXCEPT ![r] = "ffmpeg_running"]
            /\ local' = [local EXCEPT ![r].ran = TRUE]
            /\ toolRuns' = [ p \in DOMAIN toolRuns \cup {local[r].path} |->
                                IF p = local[r].path THEN Runs(p) + 1
                                ELSE toolRuns[p] ]
       ELSE /\ pc' = [pc EXCEPT ![r] = "respond"]
            /\ UNCHANGED <<local, toolRuns>>
    /\ UNCHANGED <<stores, recordings, previews, cache, args, resp>>

\* ffmpeg -y opens its output: the file at path is created or truncated,
\* whatever was there.  An empty playlist never gets this far.
ffmpeg_open_output(r) ==
    /\ pc[r] = "ffmpeg_running"
    /\ local[r].playlist_lines # <<>>
    /\ cache' = WriteFile(local[r].path, "partial")
    /\ local' = [ w \in Workers |->
                    IF w = r
                    THEN [local[w] EXCEPT !.clobbered = Writers(local[r].path) # {}]
                    ELSE IF w \in Writers(local[r].path)
                         THEN [local[w] EXCEPT !.clobbered = TRUE]
                         ELSE local[w] ]
    /\ pc' = [pc EXCEPT ![r] = "ffmpeg_writing"]
    /\ UNCHANGED <<stores, recordings, previews, toolRuns, args, resp>>

\* ffmpeg cannot read its input (empty playlist, a segment file gone):
\* non-zero exit before the output is opened
ffmpeg_fail_input(r) ==
    /\ pc[r] = "ffmpeg_running"
    /\ local' = [local EXCEPT ![r].returncode = 1]
    /\ pc' = [pc EXCEPT ![r] = "ffmpeg_exited"]
    /\ UNCHANGED <<stores, recordings, previews, cache, toolRuns, args, resp>>

\* what ffmpeg r leaves at its path on exit 0: a complete file when it was
\* the only writer; when another run truncated or shared the file, the
\* bytes are whatever the two runs left
ffmpeg_result(r) ==
    IF Writers(local[r].path) \ {r} # {} THEN {"partial"}
    ELSE IF local[r].clobbered THEN {"partial", "complete"}
    ELSE {"complete"}

ffmpeg_finish(r) ==
    /\ pc[r] = "ffmpeg_writing"
    /\ \E content \in ffmpeg_result(r) :
         cache' = WriteFile(local[r].path, content)
    /\ local' = [local EXCEPT ![r].returncode = 0]
    /\ pc' = [pc EXCEPT ![r] = "ffmpeg_exited"]
    /\ UNCHANGED <<stores, recordings, previews, toolRuns, args, resp>>

\* ffmpeg dies after it opened the output (disk full, killed): non-zero
\* exit, and what it wrote so far stays at path
ffmpeg_fail_output(r) ==
    /\ pc[r] = "ffmpeg_writing"
    /\ local' = [local EXCEPT ![r].returncode = 1]
    /\ pc' = [pc EXCEPT ![r] = "ffmpeg_exited"]
    /\ UNCHANGED <<stores, recordings, previews, cache, toolRuns, args, resp>>

\* lines 2122-2132: p.returncode != 0
recording_clip_error(r) ==
    /\ pc[r] = "ffmpeg_exited"
    /\ local[r].returncode # 0
    /\ resp' = [resp EXCEPT ![r] = ServerError("Could not create clip from recordings")]
    /\ pc' = [pc EXCEPT ![r] = "done"]
    /\ UNCHANGED <<stores, recordings, previews, cache, toolRuns, args, local>>

\* lines 2138-2149: the response names the cache path for nginx to serve;
\* os.path.getsize(path) raises when there is no file
recording_clip_respond(r) ==
    /\ \/ pc[r] = "respond"
       \/ pc[r] = "ffmpeg_exited" /\ local[r].returncode = 0
    /\ IF ~exists(local[r].path)
       THEN /\ resp' = [resp EXCEPT ![r] = ServerError("Internal Server Error")]
            /\ UNCHANGED local
       ELSE /\ resp' = [resp EXCEPT ![r] =
                          [status |-> 200,
                           x_accel_redirect |-> local[r].path,
                           content_length |-> FileAt(local[r].path)]]
            /\ local' = [local EXCEPT ![r].served =
                          [file |-> FileAt(local[r].path),
                           writing |-> Writers(local[r].path) # {}]]
    /\ pc' = [pc EXCEPT ![r] = "done"]
    /\ UNCHANGED <<stores, recordings, previews, cache, toolRuns, args>>

\* ------------------------------------------------------- specifications
Windows == Times \X Times

\* the windows recording_clip is asked for
ClipWindows == { <<0, 0>>, <<1, 1>> }

\* no request made yet, the cache directory empty
RequestInit ==
    /\ cache = <<>>
    /\ toolRuns = <<>>
    /\ pc = [w \in Workers |-> "idle"]
    /\ args = [w \in Workers |-> NoArgs]
    /\ local = [w \in Workers |-> NoLocal]
    /\ resp = [w \in Workers |-> NoResponse]

\* no event clip and no export on disk
FilesInit ==
    /\ clips_dir = {}
    /\ export_dir = <<>>

TypeInit ==
    /\ RequestInit
    /\ FilesInit
    /\ timeline = {}
    /\ events = {}
    /\ preview_dir = {}
    /\ database = [w \in Workers |-> [closed |-> TRUE]]

\* One request at a time against any small set of stored segments.
InitRange ==
    /\ \/ recordings \in AtMost(RecordingUniverse, MaxSegs) /\ previews = {}
       \/ recordings = {} /\ previews \in AtMost(PreviewUniverse, MaxSegs)
    /\ TypeInit

NextRange ==
    \/ \E c \in RequestCameras, w \in Windows : vod_ts(1, c, w[1], w[2])
    \/ \E c \in PreviewCameras, w \in Windows : preview_ts(1, c, w[1], w[2])
    \/ \E c \in RequestCameras, w \in ClipWindows : recording_clip_begin(1, c, w[1], w[2])
    \/ recording_clip_exists(1)
    \/ ffmpeg_open_output(1)
    \/ ffmpeg_fail_input(1)
    \/ ffmpeg_finish(1)
    \/ ffmpeg_fail_output(1)
    \/ recording_clip_error(1)
    \/ recording_clip_respond(1)

SpecRange == InitRange /\ [][NextRange]_vars

\* Concurrent recording_clip requests, one per worker, over a few keys.
ClipUniverse == { Row("cam1", iv, iv[2] - iv[1]) : iv \in Intervals }

InitClip ==
    /\ recordings \in AtMost(ClipUniverse, 1)
    /\ previews = {}
    /\ TypeInit

NextClip ==
    \E r \in Workers :
        \/ \E c \in RequestCameras, w \in ClipWindows :
              recording_clip_begin(r, c, w[1], w[2])
        \/ recording_clip_exists(r)
        \/ ffmpeg_open_output(r)
        \/ ffmpeg_fail_input(r)
        \/ ffmpeg_finish(r)
        \/ ffmpeg_fail_output(r)
        \/ recording_clip_error(r)
        \/ recording_clip_respond(r)

SpecClip == InitClip /\ [][NextClip]_vars

\* ------------------------------------------------------ claims: queries
Finished(r, handler) == pc[r] = "done" /\ args[r].handler = handler

Queried(r) == args[r].handler # "none"

Rows(r) == { local[r].rows[i] : i \in DOMAIN local[r].rows }

Table(r) == IF args[r].handler = "preview_ts" THEN previews ELSE recordings

CameraAsked(r, S) ==
    \/ S.camera = args[r].camera_name
    \/ args[r].handler = "preview_ts" /\ args[r].camera_name = "all"

ThreeClauses(S, start, end) ==
    \/ S.start_time \in start .. end
    \/ S.end_time \in start .. end
    \/ S.start_time < start /\ S.end_time > end

Disjoint(S, start, end) == S.end_time < start \/ S.start_time > end

\* C1: for a window with start <= end, the overlap query of vod_ts,
\* preview_ts and recording_clip returns a stored segment exactly when it
\* belongs to the camera asked for (any camera for preview_ts with "all")
\* and its start is in the window, or its end is, or it strictly contains
\* the window; nothing returned is disjoint from the window.
C1_OverlapQuery ==
    \A r \in Workers :
        Queried(r) /\ args[r].start_ts <= args[r].end_ts =>
            /\ \A S \in Table(r) :
                  S \in Rows(r) <=>
                      /\ CameraAsked(r, S)
                      /\ ThreeClauses(S, args[r].start_ts, args[r].end_ts)
            /\ \A S \in Rows(r) :
                  /\ ~Disjoint(S, args[r].start_ts, args[r].end_ts)
                  /\ CameraAsked(r, S)
            /\ Rows(r) \subseteq Table(r)

\* a query that returned a segment strictly containing its window while
\* the table also held a segment it had to leave out
C1_Witness ==
    \E r \in Workers :
        /\ Queried(r)
        /\ args[r].start_ts <= args[r].end_ts
        /\ \E S \in Rows(r) :
              S.start_time < args[r].start_ts /\ S.end_time > args[r].end_ts
        /\ Table(r) \ Rows(r) # {}

ManifestDurations(r) ==
    LET body == resp[r].body
        clips == body.sequences[1].clips
    IN  { body.durations[i] : i \in DOMAIN body.durations }
          \cup UNION { { clips[i].keyFrameDurations[j] :
                           j \in DOMAIN clips[i].keyFrameDurations } :
                       i \in DOMAIN clips }

ManifestPaths(r) ==
    LET clips == resp[r].body.sequences[1].clips
    IN  { clips[i].path : i \in DOMAIN clips }

\* the duration vod_ts computes for a row, in ms
UsedMs(S, end) ==
    IntMs(S.duration) - (IF S.end_time > end THEN IntMs(S.end_time - end) ELSE 0)

InRange(d) == d > 0 /\ d < MAX_SEGMENT_DURATION * 1000

\* C2: every duration of a vod_ts manifest, in durations and in each
\* clip's keyFrameDurations, is above 0 and below MAX_SEGMENT_DURATION *
\* 1000; a row whose duration is outside is left out of the manifest and
\* the request still ends with a manifest or the not-found response.
C2_DurationsInRange ==
    \A r \in Workers :
        Finished(r, "vod_ts") =>
            /\ resp[r].status \in {200, 404}
            /\ resp[r].status = 200 =>
                  /\ \A d \in ManifestDurations(r) : InRange(d)
                  /\ \A S \in Rows(r) :
                        ~InRange(UsedMs(S, args[r].end_ts)) =>
                            S.path \notin ManifestPaths(r)

\* a manifest built from rows of which one was dropped
C2_Witness ==
    \E r \in Workers :
        /\ Finished(r, "vod_ts")
        /\ resp[r].status = 200
        /\ \E S \in Rows(r) : ~InRange(UsedMs(S, args[r].end_ts))
        /\ \E S \in Rows(r) : UsedMs(S, args[r].end_ts) >= MAX_SEGMENT_DURATION * 1000

Survivors(r) == { S \in Rows(r) : InRange(UsedMs(S, args[r].end_ts)) }

\* C8: vod_ts answers 404 with success false exactly when no row survives
\* the duration filter, so in particular when no segment overlaps the
\* window; otherwise it answers a manifest holding at least one clip.
C8_NotFoundIffNoSurvivor ==
    \A r \in Workers :
        Finished(r, "vod_ts") =>
            /\ (resp[r].status = 404) <=> (Survivors(r) = {})
            /\ resp[r].status = 404 => resp[r].body.success = FALSE
            /\ resp[r].status # 404 =>
                  /\ resp[r].status = 200
                  /\ Len(resp[r].body.sequences[1].clips) >= 1
            /\ (\A S \in recordings :
                   S.camera = args[r].camera_name =>
                       Disjoint(S, args[r].start_ts, args[r].end_ts))
                  /\ args[r].start_ts <= args[r].end_ts
               => resp[r].status = 404

\* a 404 although segments overlapped the window: all were filtered out
C8_Witness ==
    \E r \in Workers :
        /\ Finished(r, "vod_ts")
        /\ resp[r].status = 404
        /\ Rows(r) # {}

\* the responses a handler gives for a camera that does not exist
GhostResponses(handler, start, end) ==
    IF handler = "vod_ts"
    THEN { vod_ts_response(rows, end, c) :
             rows \in order_by_start_time(vod_ts_query("ghost", start, end)),
             c \in BOOLEAN }
    ELSE { preview_ts_response(rows) :
             rows \in order_by_start_time(preview_ts_query("ghost", start, end)) }

ExistingButEmpty(r) ==
    /\ pc[r] = "done"
    /\ args[r].handler \in {"vod_ts", "preview_ts"}
    /\ args[r].camera_name \in StoredCameras
    /\ Rows(r) = {}

\* C10 as claimed: the response for an existing camera with no overlapping
\* segment differs from the response for a camera that does not exist.
C10_Distinguishable ==
    \A r \in Workers :
        ExistingButEmpty(r) =>
            resp[r] \notin GhostResponses(args[r].handler, args[r].start_ts,
                                          args[r].end_ts)

\* C10 amended: vod_ts and preview_ts give an existing camera with no
\* overlapping segment the 404 not-found response, the very response they
\* give a camera that does not exist; the two are not told apart.
C10_SameNotFound ==
    \A r \in Workers :
        ExistingButEmpty(r) =>
            /\ resp[r].status = 404
            /\ resp[r].body.success = FALSE
            /\ GhostResponses(args[r].handler, args[r].start_ts, args[r].end_ts)
                  = { resp[r] }

\* an existing camera that owns segments, none of them in the window
C10_Witness ==
    \E r \in Workers :
        /\ ExistingButEmpty(r)
        /\ \E S \in Table(r) : S.camera = args[r].camera_name

\* -------------------------------------------------- claims: cached clips
ClipDone(r) == Finished(r, "recording_clip")

KeyPath(r) == file_name(args[r].camera_name, args[r].start_ts, args[r].end_ts)

\* C3: a recording_clip request that begins after a request for the same
\* (camera, start, end) succeeded runs no ffmpeg and answers 200 naming the
\* deterministic path; when no ffmpeg run on that path was still going as
\* it began, the file it serves is the file it found, not being written.
C3_Idempotent ==
    \A r \in Workers :
        ClipDone(r) /\ local[r].began.succeeded =>
            /\ ~local[r].ran
            /\ resp[r].status = 200
            /\ resp[r].x_accel_redirect = KeyPath(r)
            /\ ~local[r].began.inflight =>
                  /\ local[r].served.file = local[r].began.file
                  /\ ~local[r].served.writing
                  /\ FileAt(KeyPath(r)) = local[r].began.file

\* two finished requests for one key, the second begun after the first
\* had succeeded through an ffmpeg run
C3_Witness ==
    \E r1, r2 \in Workers :
        /\ r1 # r2
        /\ ClipDone(r1) /\ ClipDone(r2)
        /\ local[r1].ran /\ resp[r1].status = 200
        /\ local[r2].began.succeeded /\ ~local[r2].began.inflight
        /\ KeyPath(r1) = KeyPath(r2)
        /\ Runs(KeyPath(r1)) = 1

\* C4 as claimed: after a recording_clip request whose ffmpeg run exited
\* non-zero has ended, there is no file at its cache path.
C4_NoFileAfterFailure ==
    \A r \in Workers :
        ClipDone(r) /\ local[r].ran /\ local[r].returncode # 0 =>
            ~exists(KeyPath(r))

\* r1 and r2 asked for the same key, overlapped in time, and there was no
\* file at the path when either began
ConcurrentPair(r1, r2) ==
    /\ r1 # r2
    /\ ClipDone(r1) /\ ClipDone(r2)
    /\ KeyPath(r1) = KeyPath(r2)
    /\ local[r1].began.file = "absent" /\ local[r2].began.file = "absent"
    /\ r1 \in local[r2].began.peers

RanOn(path) ==
    { w \in Workers : args[w].handler = "recording_clip" /\ local[w].path = path
                        /\ local[w].ran }

\* C5 as claimed: two concurrent requests for one key with no artifact
\* yet cause exactly one ffmpeg run and both receive the same file (stated
\* for runs of ffmpeg that all exit 0).
C5_ExactlyOneRun ==
    \A r1, r2 \in Workers :
        /\ ConcurrentPair(r1, r2)
        /\ \A w \in RanOn(KeyPath(r1)) : local[w].returncode = 0
        => /\ Runs(KeyPath(r1)) = 1
           /\ resp[r1].status = 200 /\ resp[r2].status = 200
           /\ resp[r1].x_accel_redirect = resp[r2].x_accel_redirect

AskedFor(path) ==
    { w \in Workers : args[w].handler = "recording_clip" /\ local[w].path = path }

\* C5 amended: two concurrent requests for one key with no artifact yet
\* cause at least one ffmpeg run and at most one per request for the key,
\* one for each request that found the path empty (so both may run it);
\* every 200 among their answers names the same deterministic path.
C5_OneRunPerMiss ==
    \A r1, r2 \in Workers :
        ConcurrentPair(r1, r2) =>
            /\ Runs(KeyPath(r1)) >= 1
            /\ Runs(KeyPath(r1)) = Cardinality(RanOn(KeyPath(r1)))
            /\ Runs(KeyPath(r1)) <= Cardinality(AskedFor(KeyPath(r1)))
            /\ \A r \in {r1, r2} :
                  /\ resp[r].status \in {200, 500}
                  /\ resp[r].status = 200 => resp[r].x_accel_redirect = KeyPath(r1)

\* two concurrent requests for one key that both ran ffmpeg
C5_Witness ==
    \E r1, r2 \in Workers :
        /\ ConcurrentPair(r1, r2)
        /\ local[r1].ran /\ local[r2].ran
        /\ Runs(KeyPath(r1)) = 2

\* C6 as claimed: no request answers with the file at its path while an
\* ffmpeg run is writing it; the file it names is fully written.
C6_ServedComplete ==
    \A r \in Workers :
        ClipDone(r) /\ resp[r].status = 200 =>
            /\ ~local[r].served.writing
            /\ local[r].served.file = "complete"

\* C7 as claimed: a file that exists in the cache directory is a complete
\* artifact and is never written again.
C7_NeverRewritten ==
    [][\A p \in DOMAIN cache : cache[p] = "complete" => cache'[p] = "complete"]_vars

\* C9 as claimed: a recording_clip request whose query returned no segment
\* ends with 404, has run no ffmpeg and leaves no file at its path.
C9_EmptyIsNotFound ==
    \A r \in Workers :
        ClipDone(r) /\ Rows(r) = {} =>
            /\ resp[r].status = 404
            /\ ~local[r].ran
            /\ ~exists(KeyPath(r))

\* ------------------------------------------- hourly_timeline_activity
\* The times of this handler and of hourly_timeline are whole seconds.
SecondsPerMinute == 60

SecondsPerHour == 3600

\* current_app.frigate_config.cameras
ConfiguredCameras == StoredCameras

\* stands for a request without "after": the default handed on is a
\* datetime object, not a float ("before" is always given here)
DefaultAfter == -1

\* datetime.replace(second=0, microsecond=0) and the bins of resample("T")
floor_minute(t) == (t \div SecondsPerMinute) * SecondsPerMinute

\* np.log2 on the counts the stored rows have (powers of two)
log2(n) == CHOOSE k \in 0 .. n : 2 ^ k = n

\* an exception no handler catches: Flask answers 500
UnhandledException(name) == [status |-> 500, body |-> [exception |-> name]]

ActivityRow(cam, s, d, m, o) ==
    [camera |-> cam, start_time |-> s, end_time |-> s + d, duration |-> d,
     motion |-> m, objects |-> o]

\* "after" values: on the hour, and half past
ActivityAfters == { 2 * SecondsPerHour, 2 * SecondsPerHour + 1830 }

ActivityBefore == 8 * SecondsPerHour

\* minute_offset of get_tz_modifiers: utc, and one hour west
MinuteOffsets == { 0, -60 }

\* starts: early in the hour after 02:00, ending on the next hour, just
\* after it, and more than two hours later
ActivityStarts == { 7210, 10780, 10900, 18100 }

\* (motion, objects): no motion; motion only; motion and objects
ActivityCounts == { <<0, 1>>, <<1, 0>>, <<3, 1>> }

ActivityUniverse ==
    { ActivityRow("cam1", s, 20, c[1], c[2]) :
          s \in ActivityStarts, c \in ActivityCounts }
    \cup { ActivityRow("cam2", 7210, 20, 1, 0) }

activity_query(camera_name, after, before) ==
    { rec \in recordings :
        /\ rec.camera = camera_name
        /\ rec.motion > 0
        /\ rec.start_time > after /\ rec.end_time < before }

Sample(date, count, hasObjects) ==
    [date |-> date, count |-> count, hasObjects |-> hasObjects]

\* hours[k].append(s) on a defaultdict(list)
hours_append(hours, k, s) ==
    IF k \in DOMAIN hours THEN [hours EXCEPT ![k] = Append(@, s)]
    ELSE hours @@ (k :> <<s>>)

RECURSIVE SumCount(_, _)
SumCount(data, I) ==
    IF I = {} THEN 0
    ELSE LET i == CHOOSE j \in I : TRUE
         IN  data[i].count + SumCount(data, I \ {i})

\* df.resample("T").mean().fillna(0), then count as int, hasObjects as bool:
\* one entry per minute from the minute of the earliest sample to the minute
\* of the latest
resample(data) ==
    LET bins == { floor_minute(data[i].date) : i \in DOMAIN data }
        lo == CHOOSE t \in bins : \A u \in bins : t <= u
        hi == CHOOSE t \in bins : \A u \in bins : t >= u
        n  == (hi - lo) \div SecondsPerMinute + 1
        In(t) == { i \in DOMAIN data : floor_minute(data[i].date) = t }
    IN  [ i \in 1 .. n |->
            LET t == lo + SecondsPerMinute * (i - 1)
            IN  [date |-> t,
                 count |-> IF In(t) = {} THEN 0
                           ELSE SumCount(data, In(t)) \div Cardinality(In(t)),
                 hasObjects |-> \E j \in In(t) : data[j].hasObjects] ]

hourly_timeline_activity_begin(r, camera_name, after, before, minute_offset) ==
    /\ pc[r] = "idle"
    /\ args' = [args EXCEPT ![r] =
                  [handler |-> "hourly_timeline_activity",
                   camera_name |-> camera_name, after |-> after,
                   before |-> before, minute_offset |-> minute_offset]]
    /\ IF camera_name \notin ConfiguredCameras
       THEN /\ resp' = [resp EXCEPT ![r] = NotFound("Camera not found")]
            /\ pc' = [pc EXCEPT ![r] = "done"]
            /\ UNCHANGED local
       ELSE IF after = DefaultAfter
       THEN /\ resp' = [resp EXCEPT ![r] = UnhandledException("TypeError")]
            /\ pc' = [pc EXCEPT ![r] = "done"]
            /\ UNCHANGED local
       ELSE \E rows \in order_by_start_time(
                            activity_query(camera_name, after, before)) :
              LET key == floor_minute(after) + minute_offset * SecondsPerMinute
              IN  /\ local' = [local EXCEPT ![r] =
                                 [rows |-> rows, key |-> key,
                                  check |-> key + SecondsPerHour,
                                  first_key |-> key,
                                  hours |-> (key :> <<Sample(key, 0, FALSE)>>)]]
                  /\ pc' = [pc EXCEPT ![r] = "activity_loop"]
                  /\ UNCHANGED resp
    /\ UNCHANGED <<stores, recordings, previews, cache, toolRuns>>

\* "if recording.start_time > check": one hour at most, however late the start
activity_advance(key, check, start_time) ==
    IF start_time > check THEN key + SecondsPerHour ELSE key

\* one pass of "for recording in all_recordings"
hourly_timeline_activity_step(r) ==
    /\ pc[r] = "activity_loop"
    /\ local[r].rows # <<>>
    /\ LET recording == Head(local[r].rows)
           key == local[r].key
           crossed == recording.start_time > local[r].check
           key1 == activity_advance(key, local[r].check, recording.start_time)
           hours1 == IF crossed
                     THEN hours_append(
                            hours_append(local[r].hours, key,
                                Sample(key + 59 * SecondsPerMinute + 59, 0, FALSE)),
                            key1, Sample(key1, 0, FALSE))
                     ELSE local[r].hours
           count == recording.motion + recording.objects
           hours2 == hours_append(hours1, key1,
                        Sample(recording.start_time + recording.duration \div 2,
                               IF count = 0 THEN 0 ELSE log2(count),
                               recording.objects > 0))
       IN  local' = [local EXCEPT ![r].rows = Tail(@),
                                  ![r].key = key1,
                                  ![r].check = key1 + SecondsPerHour,
                                  ![r].hours = hours2]
    /\ UNCHANGED <<stores, recordings, previews, cache, toolRuns, pc, args, resp>>

\* the resampling loop and jsonify(hours)
hourly_timeline_activity_finish(r) ==
    /\ pc[r] = "activity_loop"
    /\ local[r].rows = <<>>
    /\ resp' = [resp EXCEPT ![r] =
                  [status |-> 200,
                   body |-> [k \in DOMAIN local[r].hours |->
                                resample(local[r].hours[k])]]]
    /\ pc' = [pc EXCEPT ![r] = "done"]
    /\ UNCHANGED <<stores, recordings, previews, cache, toolRuns, args, local>>

InitActivity ==
    /\ recordings \in AtMost(ActivityUniverse, MaxSegs)
    /\ previews = {}
    /\ TypeInit

NextActivity ==
    \/ \E c \in RequestCameras, a \in ActivityAfters \cup {DefaultAfter},
          m \in MinuteOffsets :
          hourly_timeline_activity_begin(1, c, a, ActivityBefore, m)
    \/ hourly_timeline_activity_step(1)
    \/ hourly_timeline_activity_finish(1)

SpecActivity == InitActivity /\ [][NextActivity]_vars

\* ------------------------------------- claims: hourly_timeline_activity
ActivityDone(r) ==
    /\ Finished(r, "hourly_timeline_activity")
    /\ resp[r].status = 200

\* C11: every hour bucket hourly_timeline_activity returns holds exactly 60
\* minute entries, the last bucket and buckets after a gap included, each
\* with a non-negative integer count and a boolean hasObjects.
C11_SixtyMinuteEntries ==
    \A r \in Workers :
        ActivityDone(r) =>
            \A k \in DOMAIN resp[r].body :
                /\ Len(resp[r].body[k]) = 60
                /\ \A i \in DOMAIN resp[r].body[k] :
                      /\ resp[r].body[k][i].count \in Nat
                      /\ resp[r].body[k][i].hasObjects \in BOOLEAN

\* the cursors an hour apart, from the first one on
HourGrid(r) == { local[r].first_key + i * SecondsPerHour : i \in 0 .. 8 }

Processed(r) ==
    activity_query(args[r].camera_name, args[r].after, args[r].before)

Consecutive(S, A, B) ==
    /\ A \in S /\ B \in S
    /\ A.start_time < B.start_time
    /\ ~ \E C \in S : A.start_time < C.start_time /\ C.start_time < B.start_time

HasSample(bucket, date) ==
    \E i \in DOMAIN bucket : bucket[i] = Sample(date, 0, FALSE)

\* C17: every bucket but the last holds the closing zero sample at its
\* cursor + 59m59s and every bucket the opening zero sample at its cursor,
\* cursors being an hour apart; and when two consecutive recordings start
\* two hours or more apart, every hour bucket from the first one's to the
\* second one's exists with its boundary samples.
C17_GapBridged ==
    \A r \in Workers :
        ActivityDone(r) =>
            LET hours == local[r].hours
                last == CHOOSE k \in DOMAIN hours : \A j \in DOMAIN hours : j <= k
            IN  /\ DOMAIN hours \subseteq HourGrid(r)
                /\ \A k \in DOMAIN hours :
                      /\ HasSample(hours[k], k)
                      /\ k # last =>
                            HasSample(hours[k], k + 59 * SecondsPerMinute + 59)
                /\ \A A, B \in Processed(r) :
                      /\ Consecutive(Processed(r), A, B)
                      /\ B.start_time - A.start_time >= 2 * SecondsPerHour
                      => \A k \in HourGrid(r) :
                            /\ A.start_time < k + SecondsPerHour
                            /\ k <= B.start_time
                            => /\ k \in DOMAIN hours
                               /\ HasSample(hours[k], k)
                               /\ k + SecondsPerHour <= B.start_time =>
                                     HasSample(hours[k],
                                               k + 59 * SecondsPerMinute + 59)

\* ------------------------------------------- second-scale recordings
\* s seconds, in ticks
Sec(s) == s * TicksPerSecond

\* the segments of Scenario A: five-minute segments end to end
ScenarioSegments ==
    { Row("cam1", <<Sec(0), Sec(300)>>, Sec(300)),
      Row("cam1", <<Sec(300), Sec(600)>>, Sec(300)),
      Row("cam1", <<Sec(600), Sec(900)>>, Sec(300)) }

\* window edges: on a segment edge, inside a segment, and one tick off a
\* whole millisecond
ScenarioMarks ==
    { Sec(0), Sec(250), Sec(300), Sec(600), Sec(650), Sec(650) + 1, Sec(900) }

InitScenario ==
    /\ recordings \in SUBSET ScenarioSegments
    /\ previews = {}
    /\ TypeInit

NextScenario ==
    \/ \E s \in ScenarioMarks, e \in ScenarioMarks : vod_ts(1, "cam1", s, e)
    \/ \E s \in ScenarioMarks, e \in ScenarioMarks :
          recording_clip_begin(1, "cam1", s, e)
    \/ recording_clip_exists(1)
    \/ ffmpeg_open_output(1)
    \/ ffmpeg_fail_input(1)
    \/ ffmpeg_finish(1)
    \/ ffmpeg_fail_output(1)
    \/ recording_clip_error(1)
    \/ recording_clip_respond(1)

SpecScenario == InitScenario /\ [][NextScenario]_vars

\* ------------------------------------------- claims: window coverage
RECURSIVE SeqSum(_)
SeqSum(s) == IF s = <<>> THEN 0 ELSE Head(s) + SeqSum(Tail(s))

\* the rows returned are end to end, each as long as its interval, and
\* reach from no later than the window start to no earlier than its end
CoversWindow(r) ==
    LET rows == local[r].rows
    IN  /\ rows # <<>>
        /\ args[r].start_ts <= args[r].end_ts
        /\ \A i \in DOMAIN rows :
              rows[i].duration = rows[i].end_time - rows[i].start_time
        /\ \A i \in 1 .. Len(rows) - 1 : rows[i].end_time = rows[i + 1].start_time
        /\ rows[1].start_time <= args[r].start_ts
        /\ rows[Len(rows)].end_time >= args[r].end_ts

\* the clip durations of a vod_ts answer (none when it is 404)
ClipDurations(r) ==
    IF resp[r].status = 200 THEN resp[r].body.durations ELSE <<>>

\* C12 as stated: when the rows are contiguous and cover the window, the
\* clip durations add up to the window length in milliseconds.
C12_SumIsWindowLength ==
    \A r \in Workers :
        Finished(r, "vod_ts") /\ CoversWindow(r) =>
            SeqSum(ClipDurations(r)) = IntMs(args[r].end_ts - args[r].start_ts)

\* C12 amended: when the rows are contiguous and cover the window, the clip
\* durations add up to the span from the start of the first returned
\* segment to the window end, to within one millisecond per returned
\* segment (each duration is truncated to whole milliseconds): only the
\* trailing edge is trimmed, so the sum is the window length only when the
\* first segment starts at the window start.
C12_SumIsSpanFromFirstSegment ==
    \A r \in Workers :
        Finished(r, "vod_ts") /\ CoversWindow(r) =>
            LET span == args[r].end_ts - local[r].rows[1].start_time
                sum == SeqSum(ClipDurations(r)) * TicksPerMs
                slack == Len(local[r].rows) * TicksPerMs
            IN  /\ sum > span - slack /\ sum < span + slack
                /\ (local[r].rows[1].start_time = args[r].start_ts
                    /\ args[r].end_ts % TicksPerMs = 0)
                   => SeqSum(ClipDurations(r))
                        = IntMs(args[r].end_ts - args[r].start_ts)

C12_Witness ==
    \E r \in Workers :
        /\ Finished(r, "vod_ts") /\ CoversWindow(r)
        /\ Len(local[r].rows) = 3
        /\ local[r].rows[1].start_time < args[r].start_ts
        /\ local[r].rows[3].end_time > args[r].end_ts
        /\ Len(ClipDurations(r)) = 3

\* Scenario A: the three segments stored, window (250 s, 650 s)
ScenarioA(r, handler) ==
    /\ recordings = ScenarioSegments
    /\ args[r].handler = handler
    /\ args[r].camera_name = "cam1"
    /\ args[r].start_ts = Sec(250)
    /\ args[r].end_ts = Sec(650)

\* C13 as stated: in Scenario A the manifest has three clips and the first
\* clip's duration is about 50 s (within a second of 50000 ms).
C13_FirstClipFiftySeconds ==
    \A r \in Workers :
        ScenarioA(r, "vod_ts") /\ pc[r] = "done" =>
            /\ resp[r].status = 200
            /\ Len(resp[r].body.durations) = 3
            /\ resp[r].body.durations[1] \in 49000 .. 51000

\* C13 amended: in Scenario A the manifest has three clips, one per segment
\* in start order; the first and second carry their whole 300 s and the
\* last is trimmed to the 50 s before the window end.
C13_LastClipFiftySeconds ==
    \A r \in Workers :
        ScenarioA(r, "vod_ts") /\ pc[r] = "done" =>
            /\ resp[r].status = 200
            /\ resp[r].body.durations = <<300000, 300000, 50000>>
            /\ Len(resp[r].body.sequences[1].clips) = 3
            /\ \A i \in 1 .. 3 :
                  resp[r].body.sequences[1].clips[i].path = local[r].rows[i].path

C13_Witness ==
    \E r \in Workers :
        /\ ScenarioA(r, "vod_ts") /\ pc[r] = "done"
        /\ Len(local[r].rows) = 3

\* the last line of the playlist
LastLine(r) == local[r].playlist_lines[Len(local[r].playlist_lines)]

\* C14 as stated: in Scenario A the outpoint recording_clip writes for the
\* last segment is 350 seconds.
C14_Outpoint350 ==
    \A r \in Workers :
        ScenarioA(r, "recording_clip") => LastLine(r) = <<"outpoint", 350>>

\* C14 amended: in Scenario A the outpoint recording_clip writes for the
\* last segment is 50 seconds, the window end 650 less that segment's own
\* start 600; it is the playlist's only outpoint and its last line, and
\* the only inpoint, 250, follows the first file line.
C14_Outpoint50 ==
    \A r \in Workers :
        ScenarioA(r, "recording_clip") =>
            LET lines == local[r].playlist_lines
            IN  /\ Len(lines) = 5
                /\ lines[5] = <<"outpoint", 50>>
                /\ lines[4] = <<"file", local[r].rows[3].path>>
                /\ lines[2] = <<"inpoint", 250>>
                /\ \A i \in {1, 3, 4} : lines[i][1] = "file"

C14_Witness ==
    \E r \in Workers :
        /\ ScenarioA(r, "recording_clip")
        /\ Len(local[r].rows) = 3
        /\ pc[r] = "done"

\* the positions of the file lines of a playlist
FileLines(lines) == { i \in DOMAIN lines : lines[i][1] = "file" }

\* C15: in the playlist recording_clip builds, for any stored segments of
\* the camera (overlapping ones included), an inpoint line comes only right
\* after the first file line and an outpoint line only after the last file
\* line; no segment in between carries either.
C15_TrimOnlyAtTheEnds ==
    \A r \in Workers :
        args[r].handler = "recording_clip" /\ args[r].start_ts <= args[r].end_ts =>
            LET lines == local[r].playlist_lines
            IN  \A i \in DOMAIN lines :
                  /\ lines[i][1] = "inpoint" =>
                        /\ i = 2
                        /\ lines[1][1] = "file"
                  /\ lines[i][1] = "outpoint" =>
                        /\ i = Len(lines)
                        /\ \A f \in FileLines(lines) : f < i

\* ------------------------------------------------------ hourly_timeline
\* the default of the request argument limit
DefaultLimit == 200

TimelineRow(cam, ts, label, id) ==
    [camera |-> cam, timestamp |-> ts, label |-> label, source_id |-> id]

\* timestamps in two hours, at their edges and inside them
TimelineStamps == { 3600, 5400, 7199, 7200, 9000 }

\* two records may carry the same timestamp
TimelineUniverse ==
    { TimelineRow("cam1", ts, "person", 1) : ts \in TimelineStamps }
    \cup { TimelineRow("cam1", 5400, "car", 2), TimelineRow("cam2", 7300, "car", 3) }

\* UTC offsets of the server's zone, in seconds: datetime.fromtimestamp
\* and .timestamp() work in local time
LocalZones == { 0, 1800 }

\* datetime.fromtimestamp(t).replace(minute=0, second=0, microsecond=0)
\* as a timestamp, on a server z seconds east of UTC
floor_hour(t, z) == ((t + z) \div SecondsPerHour) * SecondsPerHour - z

\* the clauses of the query; an argument of 0 or none adds no clause
hourly_timeline_query(cameras, labels, before, after) ==
    { t \in timeline :
        /\ cameras # "all" => t.camera = cameras
        /\ labels # "all" => t.label = labels
        /\ before # 0 => t.timestamp < before
        /\ after # 0 => t.timestamp > after }

\* order_by(Timeline.timestamp.desc()): equal timestamps in any order
order_by_timestamp_desc(S) ==
    { s \in [1 .. Cardinality(S) -> S] :
        /\ \A i, j \in 1 .. Cardinality(S) : i # j => s[i] # s[j]
        /\ \A i, j \in 1 .. Cardinality(S) :
              i < j => s[i].timestamp >= s[j].timestamp }

\* .limit(limit)
limit_rows(rows, limit) ==
    SubSeq(rows, 1, IF Len(rows) < limit THEN Len(rows) ELSE limit)

\* the bucket update with the later record put last
hours_insert_appending(hours, hour, t) ==
    IF hour \notin DOMAIN hours THEN hours @@ (hour :> <<t>>)
    ELSE [hours EXCEPT ![hour] = Append(@, t)]

\* if hour not in hours: hours[hour] = [t] else: hours[hour].insert(0, t)
hours_insert(hours, hour, t) ==
    IF hour \notin DOMAIN hours THEN hours @@ (hour :> <<t>>)
    ELSE [hours EXCEPT ![hour] = <<t>> \o @]

RECURSIVE hourly_timeline_loop(_, _, _, _)
hourly_timeline_loop(rows, minute_offset, z, acc) ==
    IF rows = <<>> THEN acc
    ELSE LET t == Head(rows)
             hour == floor_hour(t.timestamp, z) + minute_offset * SecondsPerMinute
         IN  hourly_timeline_loop(Tail(rows), minute_offset, z,
                 [start |-> IF acc.count = 0 THEN t.timestamp ELSE acc.start,
                  end |-> IF acc.count = 0 THEN acc.end ELSE t.timestamp,
                  count |-> acc.count + 1,
                  hours |-> hours_insert(acc.hours, hour, t)])

hourly_timeline(r, cameras, labels, before, after, limit, minute_offset, z) ==
    /\ pc[r] = "idle"
    /\ \E sorted \in order_by_timestamp_desc(
                        hourly_timeline_query(cameras, labels, before, after)) :
         LET rows == limit_rows(sorted, limit)
         IN  /\ local' = [local EXCEPT ![r] = [rows |-> rows, zone |-> z]]
             /\ resp' = [resp EXCEPT ![r] =
                           [status |-> 200,
                            body |-> hourly_timeline_loop(rows, minute_offset, z,
                                       [start |-> 0, end |-> 0, count |-> 0,
                                        hours |-> <<>>])]]
    /\ args' = [args EXCEPT ![r] =
                  [handler |-> "hourly_timeline", cameras |-> cameras,
                   labels |-> labels, before |-> before, after |-> after,
                   limit |-> limit, minute_offset |-> minute_offset]]
    /\ pc' = [pc EXCEPT ![r] = "done"]
    /\ UNCHANGED <<recordings, previews, cache, toolRuns, stores>>

InitTimeline ==
    /\ RequestInit
    /\ FilesInit
    /\ recordings = {}
    /\ previews = {}
    /\ timeline \in AtMost(TimelineUniverse, MaxSegs)
    /\ events = {}
    /\ preview_dir = {}
    /\ database = [w \in Workers |-> [closed |-> TRUE]]

NextTimeline ==
    \E cameras \in {"all", "cam1"}, labels \in {"all", "person"},
       before \in {0, 7200}, after \in {0, 3600}, limit \in {1, DefaultLimit},
       minute_offset \in MinuteOffsets, z \in LocalZones :
       hourly_timeline(1, cameras, labels, before, after, limit, minute_offset, z)

SpecTimeline == InitTimeline /\ [][NextTimeline]_vars

\* ------------------------------------------------ claims: hourly_timeline
TimelineDone(r) == Finished(r, "hourly_timeline")

\* C16: in every bucket of the hours map of hourly_timeline the records are
\* oldest first (timestamps never decrease) although the rows are scanned
\* newest first; every scanned row is in one bucket, and the key of its
\* bucket is the start of the (server-local) hour the row's timestamp lies
\* in, plus the timezone minute offset.
C16_OldestFirstUnderHourKey ==
    \A r \in Workers :
        TimelineDone(r) =>
            LET hours == resp[r].body.hours
                shift == args[r].minute_offset * SecondsPerMinute
            IN  /\ \A k \in DOMAIN hours :
                      /\ \A i, j \in DOMAIN hours[k] :
                            i < j => hours[k][i].timestamp <= hours[k][j].timestamp
                      /\ (k - shift + local[r].zone) % SecondsPerHour = 0
                      /\ \A i \in DOMAIN hours[k] :
                            /\ k - shift <= hours[k][i].timestamp
                            /\ hours[k][i].timestamp < k - shift + SecondsPerHour
                /\ \A i \in DOMAIN local[r].rows :
                      \E k \in DOMAIN hours : \E j \in DOMAIN hours[k] :
                          hours[k][j] = local[r].rows[i]
                /\ resp[r].body.count = Len(local[r].rows)

C16_Witness ==
    \E r \in Workers :
        /\ TimelineDone(r)
        /\ args[r].minute_offset # 0
        /\ \E k \in DOMAIN resp[r].body.hours :
              /\ Len(resp[r].body.hours[k]) = 2
              /\ resp[r].body.hours[k][1].timestamp
                    < resp[r].body.hours[k][2].timestamp

\* ------------------------------------------- the database connection
\* The connection state of the peewee database object is kept per thread
\* (threading.local), and a request is served by one thread: database[w] is
\* the state the thread of request w sees.
is_closed(w) == database[w].closed

\* what a request's handler may end in
Outcomes == { "response", "error_response", "exception" }

\* a request arrives; check_csrf, the first before_request function, may
\* answer 401, and then no later before_request function nor the handler runs
request_started(w) ==
    /\ pc[w] = "idle"
    /\ args' = [args EXCEPT ![w] = [handler |-> "request"]]
    /\ local' = [local EXCEPT ![w] = [handled |-> FALSE, open_in_handler |-> TRUE, beside |-> {}]]
    /\ \/ pc' = [pc EXCEPT ![w] = "before_request"] /\ UNCHANGED resp
       \/ /\ pc' = [pc EXCEPT ![w] = "teardown_request"]
          /\ resp' = [resp EXCEPT ![w] = [status |-> 401]]
    /\ UNCHANGED <<recordings, previews, cache, toolRuns, stores>>

\* @app.before_request: if database.is_closed(): database.connect()
db_connect(w) ==
    /\ pc[w] = "before_request"
    /\ database' = IF is_closed(w)
                   THEN [database EXCEPT ![w].closed = FALSE]
                   ELSE database
    /\ pc' = [pc EXCEPT ![w] = "handler"]
    /\ UNCHANGED <<recordings, previews, cache, toolRuns, args, local, resp,
                   timeline, events, preview_dir, clips_dir, export_dir>>

\* the view function runs and uses the connection of its thread; beside
\* notes the requests that were in their handler when this one was torn down
handler_returns(w) ==
    /\ pc[w] = "handler"
    /\ local' = [local EXCEPT ![w].handled = TRUE,
                               ![w].open_in_handler = ~is_closed(w)]
    /\ \E o \in Outcomes :
          resp' = [resp EXCEPT ![w] =
                     [status |-> CASE o = "response" -> 200
                                   [] o = "error_response" -> 404
                                   [] OTHER -> 500]]
    /\ pc' = [pc EXCEPT ![w] = "teardown_request"]
    /\ UNCHANGED <<recordings, previews, cache, toolRuns, args, stores>>

\* a teardown that closes the connection whichever thread opened it
db_close_every_thread(w) ==
    /\ pc[w] = "teardown_request"
    /\ database' = [v \in Workers |-> [closed |-> TRUE]]
    /\ local' = [local EXCEPT ![w].beside =
                                  { v \in Workers : pc[v] = "handler" }]
    /\ pc' = [pc EXCEPT ![w] = "done"]
    /\ UNCHANGED <<recordings, previews, cache, toolRuns, args, resp,
                   timeline, events, preview_dir, clips_dir, export_dir>>

\* @app.teardown_request: if not database.is_closed(): database.close()
db_close(w) ==
    /\ pc[w] = "teardown_request"
    /\ database' = IF ~is_closed(w)
                   THEN [database EXCEPT ![w].closed = TRUE]
                   ELSE database
    /\ local' = [local EXCEPT ![w].beside =
                                  { v \in Workers : pc[v] = "handler" }]
    /\ pc' = [pc EXCEPT ![w] = "done"]
    /\ UNCHANGED <<recordings, previews, cache, toolRuns, args, resp,
                   timeline, events, preview_dir, clips_dir, export_dir>>

InitDatabase ==
    /\ recordings = {}
    /\ previews = {}
    /\ TypeInit

NextDatabase ==
    \E w \in Workers :
        \/ request_started(w)
        \/ db_connect(w)
        \/ handler_returns(w)
        \/ db_close(w)

SpecDatabase == InitDatabase /\ [][NextDatabase]_vars

\* -------------------------------------- claims: the database connection
\* C18: the connection of a request is open while its handler runs, also
\* when other requests are torn down meanwhile, and it is closed once the
\* request has ended, whether by a response, an error response, an
\* exception or a rejection before the handler.
C18_OpenInHandlerClosedAfter ==
    \A w \in Workers :
        args[w].handler = "request" =>
            /\ pc[w] = "handler" => ~is_closed(w)
            /\ local[w].handled => local[w].open_in_handler
            /\ pc[w] = "done" => is_closed(w)

C18_Witness ==
    \E v, w \in Workers :
        /\ v # w
        /\ pc[v] = "done" /\ local[v].handled /\ resp[v].status = 500
        /\ w \in local[v].beside
        /\ pc[w] = "done" /\ local[w].open_in_handler

\* -------------------------------------------------------- event_preview
\* The times of this handler are hundredths of a second. File names are
\* sequences of character codes, so that they compare as Python compares
\* them.
Hundredths(s) == s * 100

\* str() of a float with at most two decimals: "10.0", "10.5", "10.55"
float_str(h) ==
    Digits(h \div 100) \o <<46>>
      \o (IF h % 10 = 0 THEN <<48 + (h % 100) \div 10>>
          ELSE <<48 + (h % 100) \div 10, 48 + (h % 10)>>)

\* a timestamp put into an f-string: a float, or the int 20
format_ts(ts) == IF ts.is_int THEN Digits(ts.value \div 100) ELSE float_str(ts.value)

Float(h) == [value |-> h, is_int |-> FALSE]

\* f"preview_{event.camera}"
file_start(camera) == <<112, 114, 101, 118, 105, 101, 119, 95>> \o Chars(camera)

\* f"{file_start}-{ts}.jpg"
frame_file(camera, ts) ==
    file_start(camera) \o <<45>> \o format_ts(ts) \o <<46, 106, 112, 103>>

\* a < b on strings
RECURSIVE str_less(_, _)
str_less(a, b) ==
    IF b = <<>> THEN FALSE
    ELSE IF a = <<>> THEN TRUE
    ELSE IF Head(a) # Head(b) THEN Head(a) < Head(b)
    ELSE str_less(Tail(a), Tail(b))

startswith(s, prefix) ==
    Len(s) >= Len(prefix) /\ SubSeq(s, 1, Len(prefix)) = prefix

\* sorted(os.listdir(preview_dir))
sorted_listdir ==
    CHOOSE s \in [1 .. Cardinality(preview_dir) -> preview_dir] :
        \A i, j \in 1 .. Cardinality(preview_dir) : i < j => str_less(s[i], s[j])

\* the frame times on disk, all with as many digits before the point (as
\* epoch seconds have): before, at and inside a short event, after it, and
\* half a minute later
FrameStamps == { 10000, 10050, 10055, 10200, 10205, 13100 }

FrameUniverse ==
    { frame_file("cam1", Float(t)) : t \in FrameStamps }
    \cup { frame_file("cam10", Float(10055)) }

\* events: end_time 0 stands for None, an event still in progress
EventRow(id, camera, s, e) ==
    [id |-> id, camera |-> camera, start_time |-> s, end_time |-> e]

\* one event of cam1 from 100.5 s: in progress, 1.5 s long, 35 s long
EventUniverse ==
    { EventRow("e1", "cam1", 10050, e) : e \in {0, 10200, 13550} }

EventPreviews ==
    { Row("cam1", <<6000, 12000>>, 6000), Row("cam1", <<12000, 18000>>, 6000),
      Row("cam2", <<6000, 12000>>, 6000) }

\* datetime.now().replace(minute=0, second=0)
HourStarts == { 0, 36000 }

\* start_ts + min(event.end_time - event.start_time, 20) if event.end_time
\* else 20: the conditional takes in the whole sum
event_end_ts(event) ==
    IF event.end_time # 0
    THEN Float(event.start_time
               + (IF event.end_time - event.start_time < Hundredths(20)
                  THEN event.end_time - event.start_time ELSE Hundredths(20)))
    ELSE [value |-> Hundredths(20), is_int |-> TRUE]

event_preview_query(event, start_ts, end_ts) ==
    { p \in previews :
        /\ \/ between(p.start_time, start_ts, end_ts)
           \/ between(p.end_time, start_ts, end_ts)
           \/ (start_ts > p.start_time /\ end_ts < p.end_time)
        /\ p.camera = event.camera }

\* the loop over the sorted directory, with its continue and its break
RECURSIVE select_previews(_, _, _, _)
select_previews(files, prefix, start_file, end_file) ==
    IF files = <<>> THEN <<>>
    ELSE LET file == Head(files)
             rest == Tail(files)
         IN  IF ~startswith(file, prefix)
             THEN select_previews(rest, prefix, start_file, end_file)
             ELSE IF str_less(file, start_file)
             THEN select_previews(rest, prefix, start_file, end_file)
             ELSE IF str_less(end_file, file) THEN <<>>
             ELSE <<file>> \o select_previews(rest, prefix, start_file, end_file)

NoPreview == Row("", <<0, 0>>, 0)

\* the handler's locals: ran says sp.run was reached
EventLocal(event, start_ts, end_ts, mode, ran, selected, preview) ==
    [event |-> event, start_ts |-> start_ts, end_ts |-> end_ts, mode |-> mode,
     ran |-> ran, selected |-> selected, preview |-> preview]

\* lines 611-718: the event, the window, and either the preview segment or
\* the stills; hour_start is the start of the current hour
event_preview_begin(r, id, hour_start) ==
    /\ pc[r] = "idle"
    /\ args' = [args EXCEPT ![r] = [handler |-> "event_preview", id |-> id,
                                    hour_start |-> hour_start]]
    /\ IF ~ \E event \in events : event.id = id
       THEN /\ resp' = [resp EXCEPT ![r] = NotFound("Event not found")]
            /\ pc' = [pc EXCEPT ![r] = "done"]
            /\ local' = [local EXCEPT ![r] =
                  EventLocal(EventRow("", "", 0, 0), Float(0), Float(0), "none",
                             FALSE, <<>>, NoPreview)]
       ELSE LET event == CHOOSE e \in events : e.id = id
                start_ts == Float(event.start_time)
                end_ts == event_end_ts(event)
                found == event_preview_query(event, start_ts.value, end_ts.value)
                selected == select_previews(sorted_listdir,
                                file_start(event.camera),
                                frame_file(event.camera, start_ts),
                                frame_file(event.camera, end_ts))
            IN  IF event.start_time < hour_start
                THEN IF found = {}
                     THEN /\ resp' = [resp EXCEPT ![r] =
                                        UnhandledException("DoesNotExist")]
                          /\ pc' = [pc EXCEPT ![r] = "done"]
                          /\ local' = [local EXCEPT ![r] =
                                EventLocal(event, start_ts, end_ts, "video",
                                           FALSE, <<>>, NoPreview)]
                     ELSE \E preview \in found :
                          /\ local' = [local EXCEPT ![r] =
                                EventLocal(event, start_ts, end_ts, "video",
                                           TRUE, <<>>, preview)]
                          /\ pc' = [pc EXCEPT ![r] = "gif_running"]
                          /\ UNCHANGED resp
                ELSE IF selected = <<>>
                     THEN /\ resp' = [resp EXCEPT ![r] = NotFound("Preview not found")]
                          /\ pc' = [pc EXCEPT ![r] = "done"]
                          /\ local' = [local EXCEPT ![r] =
                                EventLocal(event, start_ts, end_ts, "stills",
                                           FALSE, selected, NoPreview)]
                     ELSE /\ local' = [local EXCEPT ![r] =
                                EventLocal(event, start_ts, end_ts, "stills",
                                           TRUE, selected, NoPreview)]
                          /\ pc' = [pc EXCEPT ![r] = "gif_running"]
                          /\ UNCHANGED resp
    /\ UNCHANGED <<recordings, previews, cache, toolRuns, stores>>

\* sp.run returns: the gif, or 500 when ffmpeg exits non-zero
event_preview_result(r) ==
    /\ pc[r] = "gif_running"
    /\ \E returncode \in {0, 1} :
          resp' = [resp EXCEPT ![r] =
                     IF returncode # 0
                     THEN ServerError("Unable to create preview gif")
                     ELSE [status |-> 200, body |-> "gif"]]
    /\ pc' = [pc EXCEPT ![r] = "done"]
    /\ UNCHANGED <<recordings, previews, cache, toolRuns, args, local, stores>>

InitEventPreview ==
    /\ RequestInit
    /\ FilesInit
    /\ recordings = {}
    /\ timeline = {}
    /\ database = [w \in Workers |-> [closed |-> TRUE]]
    /\ events \in AtMost(EventUniverse, 1)
    /\ \/ previews = {} /\ preview_dir \in AtMost(FrameUniverse, MaxSegs)
       \/ previews \in AtMost(EventPreviews, MaxSegs) /\ preview_dir = {}

NextEventPreview ==
    \/ \E id \in {"e1", "e2"}, hour_start \in HourStarts :
          event_preview_begin(1, id, hour_start)
    \/ event_preview_result(1)

SpecEventPreview == InitEventPreview /\ [][NextEventPreview]_vars

\* ------------------------------------------------ claims: event_preview
EventPreviewBegun(r, mode) ==
    /\ args[r].handler = "event_preview"
    /\ local[r].mode = mode

\* the stills on disk of a camera whose time is between start and end,
\* both included, as numbers
StillsInWindow(camera, start, end) ==
    { t \in FrameStamps :
        /\ frame_file(camera, Float(t)) \in preview_dir
        /\ start <= t /\ t <= end }

\* C19: in the still-frame fallback of event_preview the stills selected
\* are exactly those of the event's camera with start <= t <= end
\* (numerically), in ascending time order; when there is none the answer
\* is 404 and the tool is not run.
C19_StillsInWindowAscending ==
    \A r \in Workers :
        EventPreviewBegun(r, "stills") =>
            LET camera == local[r].event.camera
                wanted == StillsInWindow(camera, local[r].start_ts.value,
                                         local[r].end_ts.value)
                selected == local[r].selected
            IN  /\ { selected[i] : i \in DOMAIN selected }
                      = { frame_file(camera, Float(t)) : t \in wanted }
                /\ \A i, j \in DOMAIN selected :
                      i < j => \E t, u \in wanted :
                                  /\ t < u
                                  /\ selected[i] = frame_file(camera, Float(t))
                                  /\ selected[j] = frame_file(camera, Float(u))
                /\ wanted = {} =>
                      /\ pc[r] = "done"
                      /\ resp[r].status = 404
                      /\ ~local[r].ran

\* C20: in video mode of event_preview, when no preview segment of the
\* event's camera overlaps the window, the answer is 404 "Preview not
\* found", not an unhandled exception, and the tool is not run.
C20_NoPreviewIsNotFound ==
    \A r \in Workers :
        /\ EventPreviewBegun(r, "video")
        /\ event_preview_query(local[r].event, local[r].start_ts.value,
                               local[r].end_ts.value) = {}
        => /\ pc[r] = "done"
           /\ resp[r] = NotFound("Preview not found")
           /\ ~local[r].ran

\* ------------------------------------------- claims: independent keys
\* the steps of recording_clip after its first, for worker r
ClipStep(r) ==
    \/ recording_clip_exists(r)
    \/ ffmpeg_open_output(r)
    \/ ffmpeg_fail_input(r)
    \/ ffmpeg_finish(r)
    \/ ffmpeg_fail_output(r)
    \/ recording_clip_error(r)
    \/ recording_clip_respond(r)

InClip(r) == args[r].handler = "recording_clip" /\ pc[r] # "idle"

\* two recording_clip requests whose keys (the sanitized file names) differ
OtherKeys(r1, r2) ==
    /\ r1 # r2
    /\ InClip(r1)
    /\ InClip(r2)
    /\ local[r1].path # local[r2].path

\* r1 can go on whatever r2 is doing
C21_CanProceed ==
    \A r1, r2 \in Workers :
        OtherKeys(r1, r2) /\ pc[r1] # "done" => ENABLED ClipStep(r1)

\* a step of r2 leaves r1's file, position, locals and answer as they were
C21_StepsApart ==
    \A r1, r2 \in Workers :
        OtherKeys(r1, r2) /\ pc'[r2] # pc[r2] =>
            /\ (local[r1].path \in DOMAIN cache') = exists(local[r1].path)
            /\ exists(local[r1].path) =>
                  cache'[local[r1].path] = cache[local[r1].path]
            /\ Runs(local[r1].path)
                 = (IF local[r1].path \in DOMAIN toolRuns'
                    THEN toolRuns'[local[r1].path] ELSE 0)
            /\ pc'[r1] = pc[r1]
            /\ local'[r1] = local[r1]
            /\ resp'[r1] = resp[r1]

\* the answer of a request comes from the file at its own path: 200 names
\* that path, and a request that ran ffmpeg and saw it exit 0 is not
\* answered "Could not create clip"
C21_OwnOutcome ==
    \A r \in Workers :
        ClipDone(r) =>
            /\ resp[r].status = 200 => resp[r].x_accel_redirect = local[r].path
            /\ resp[r].status = 200 => exists(local[r].path)
            /\ resp[r] = ServerError("Could not create clip from recordings")
                  => local[r].ran /\ local[r].returncode # 0

\* C21: concurrent recording_clip requests for different keys proceed
\* independently: a request for key k1 can always take its next step
\* whatever a request for another key k2 is doing (pending, running ffmpeg,
\* failed), no step of the k2 request changes the file at k1's path, the
\* ffmpeg runs counted for it, or the k1 request's position, locals or
\* answer, and the k1 request's answer comes from its own path and run.
C21_DifferentKeysIndependent ==
    /\ [](C21_CanProceed /\ C21_OwnOutcome)
    /\ [][C21_StepsApart]_vars

\* a request ran ffmpeg and was answered 200 while the ffmpeg of a request
\* for another key of the same camera is still writing its own file
C21_Witness ==
    \E r1, r2 \in Workers :
        /\ OtherKeys(r1, r2)
        /\ pc[r1] = "done"
        /\ resp[r1].status = 200
        /\ local[r1].ran
        /\ pc[r2] = "ffmpeg_writing"
        /\ args[r1].camera_name = args[r2].camera_name

\* ------------------------------------------- claims: order of the clips
ManifestClips(r) == resp[r].body.sequences[1].clips

\* C22: the clips of a vod_ts manifest form one sequence that is a
\* subsequence of the overlapping segments taken in ascending start_time
\* order: the clips that survive keep the order of the rows, none is
\* repeated, and the i-th entry of durations is the used duration of the
\* segment of the i-th clip.
C22_ClipsAreOrderedSubsequence ==
    \A r \in Workers :
        Finished(r, "vod_ts") /\ resp[r].status = 200 =>
            LET rows == local[r].rows
                clips == ManifestClips(r)
                durations == resp[r].body.durations
            IN  /\ Len(resp[r].body.sequences) = 1
                /\ Len(durations) = Len(clips)
                /\ Rows(r) \subseteq recordings
                /\ \A i, j \in DOMAIN rows :
                      i < j => rows[i].start_time <= rows[j].start_time
                /\ \E f \in [DOMAIN clips -> DOMAIN rows] :
                      /\ \A i, j \in DOMAIN clips : i < j => f[i] < f[j]
                      /\ \A i \in DOMAIN clips :
                            /\ clips[i].path = rows[f[i]].path
                            /\ durations[i] = UsedMs(rows[f[i]], args[r].end_ts)
                /\ \A i, j \in DOMAIN clips :
                      i < j =>
                         \E S, T \in Rows(r) :
                            /\ S.path = clips[i].path
                            /\ T.path = clips[j].path
                            /\ S.start_time <= T.start_time

\* a manifest of two clips with different durations, from segments that
\* start at different times
C22_Witness ==
    \E r \in Workers :
        /\ Finished(r, "vod_ts")
        /\ resp[r].status = 200
        /\ Len(ManifestClips(r)) = 2
        /\ resp[r].body.durations[1] # resp[r].body.durations[2]
        /\ local[r].rows[1].start_time < local[r].rows[2].start_time

\* ------------------------------------------- claims: trailing-edge trim
\* the row a clip of the manifest was made from
ClipRow(r, i) == CHOOSE S \in Rows(r) : S.path = ManifestClips(r)[i].path

\* C23: the duration vod_ts uses for a segment is int(duration * 1000),
\* less int((segment.end_time - end) * 1000) exactly when the segment ends
\* after the window end; a segment that starts before the window start and
\* ends inside the window keeps its whole duration (only the trailing edge
\* is trimmed).
C23_TrailingEdgeTrimOnly ==
    \A r \in Workers :
        Finished(r, "vod_ts") /\ resp[r].status = 200 =>
            \A i \in DOMAIN ManifestClips(r) :
                LET S == ClipRow(r, i)
                    d == resp[r].body.durations[i]
                    whole == IntMs(S.duration)
                    excess == IntMs(S.end_time - args[r].end_ts)
                IN  /\ S.end_time > args[r].end_ts => d = whole - excess
                    /\ S.end_time <= args[r].end_ts => d = whole
                    /\ S.start_time < args[r].start_ts
                         /\ S.end_time <= args[r].end_ts => d = whole
                    /\ S.start_time < args[r].start_ts
                         /\ S.end_time > args[r].end_ts => d = whole - excess

\* a manifest whose first clip comes from a segment that starts before the
\* window and keeps its whole duration, and whose last clip loses an excess
\* that is not a whole number of ms
C23_Witness ==
    \E r \in Workers :
        /\ Finished(r, "vod_ts")
        /\ resp[r].status = 200
        /\ args[r].start_ts <= args[r].end_ts
        /\ \E i \in DOMAIN ManifestClips(r) :
              /\ ClipRow(r, i).start_time < args[r].start_ts
              /\ ClipRow(r, i).end_time <= args[r].end_ts
              /\ resp[r].body.durations[i] = IntMs(ClipRow(r, i).duration)
        /\ \E i \in DOMAIN ManifestClips(r) :
              /\ ClipRow(r, i).end_time > args[r].end_ts
              /\ (ClipRow(r, i).end_time - args[r].end_ts) % TicksPerMs # 0
              /\ resp[r].body.durations[i] < IntMs(ClipRow(r, i).duration)

\* ------------------------------------------- claims: manifest structure
\* C30: every manifest vod_ts returns is structurally consistent: there is
\* one sequence, durations is as long as its clips, the keyFrameDurations
\* of clip i is the one-element list holding durations[i], discontinuity
\* is false, and segment_duration is the largest entry of durations, hence
\* below MAX_SEGMENT_DURATION * 1000.
C30_ManifestConsistent ==
    \A r \in Workers :
        Finished(r, "vod_ts") /\ resp[r].status = 200 =>
            LET body == resp[r].body
                clips == body.sequences[1].clips
            IN  /\ Len(body.sequences) = 1
                /\ Len(body.durations) = Len(clips)
                /\ Len(clips) >= 1
                /\ \A i \in DOMAIN clips :
                      /\ Len(clips[i].keyFrameDurations) = 1
                      /\ clips[i].keyFrameDurations[1] = body.durations[i]
                      /\ clips[i].type = "source"
                /\ body.discontinuity = FALSE
                /\ \E i \in DOMAIN body.durations :
                      body.segment_duration = body.durations[i]
                /\ \A i \in DOMAIN body.durations :
                      body.durations[i] <= body.segment_duration
                /\ body.segment_duration < MAX_SEGMENT_DURATION * 1000

\* a manifest of two clips whose longer duration is the second one
C30_Witness ==
    \E r \in Workers :
        /\ Finished(r, "vod_ts")
        /\ resp[r].status = 200
        /\ Len(resp[r].body.durations) = 2
        /\ resp[r].body.durations[1] < resp[r].body.durations[2]
        /\ resp[r].body.segment_duration = resp[r].body.durations[2]

\* ------------------------------------------------- the recordings route
\* the two clauses with strict comparisons
recordings_where_strict(rec, after, before) ==
    rec.end_time > after /\ rec.start_time < before

\* lines 2049-2053: Recordings.end_time >= after, Recordings.start_time <= before
recordings_where(rec, after, before) ==
    rec.end_time >= after /\ rec.start_time <= before

recordings_query(camera_name, after, before) ==
    { rec \in recordings :
        rec.camera = camera_name /\ recordings_where(rec, after, before) }

\* GET /<camera_name>/recordings: the rows as a JSON list.  after and
\* before are what the query string or the defaults (an hour ago, now)
\* give.
recordings_route(r, camera_name, after, before) ==
    /\ pc[r] = "idle"
    /\ \E rows \in order_by_start_time(recordings_query(camera_name, after, before)) :
         /\ local' = [local EXCEPT ![r].rows = rows]
         /\ resp' = [resp EXCEPT ![r] = [status |-> 200, body |-> rows]]
    /\ args' = [args EXCEPT ![r] = [handler |-> "recordings",
                                    camera_name |-> camera_name,
                                    after |-> after, before |-> before]]
    /\ pc' = [pc EXCEPT ![r] = "done"]
    /\ UNCHANGED <<stores, recordings, previews, cache, toolRuns>>

\* lines 2412-2420: the overlap test of export_recording
export_recording_where(rec, start_time, end_time) ==
    \/ between(rec.start_time, start_time, end_time)
    \/ between(rec.end_time, start_time, end_time)
    \/ (start_time > rec.start_time /\ end_time < rec.end_time)

\* One request to the recordings route and one to vod_ts, over the same
\* table.
InitOverlap ==
    /\ recordings \in AtMost(ClipUniverse, MaxSegs)
    /\ previews = {}
    /\ TypeInit

NextOverlap ==
    \/ \E c \in RequestCameras, w \in Windows : recordings_route(1, c, w[1], w[2])
    \/ \E c \in RequestCameras, w \in Windows : vod_ts(2, c, w[1], w[2])

SpecOverlap == InitOverlap /\ [][NextOverlap]_vars

\* ------------------------------------------- claims: the two overlap tests
Listed(r) == Finished(r, "recordings") /\ args[r].after <= args[r].before

\* C26: for segments with start < end and a window with start <= end, the
\* two-clause test of the recordings route (segment.end >= start and
\* segment.start <= end) selects the same segments as the three-clause
\* test of recording_clip, vod_ts, preview_ts and export_recording; the
\* tests can differ only for a window with start > end.
C26_TwoClausesAreThreeClauses ==
    /\ \A S \in recordings : S.start_time < S.end_time
    /\ \A r \in Workers :
        Listed(r) =>
            LET a == args[r].after
                b == args[r].before
                c == args[r].camera_name
                mine == { S \in recordings : S.camera = c }
            IN  /\ Rows(r) = vod_ts_query(c, a, b)
                /\ Rows(r) = recording_clip_query(c, a, b)
                /\ Rows(r) = { S \in mine : preview_ts_where(S, a, b) }
                /\ Rows(r) = { S \in mine : export_recording_where(S, a, b) }
                /\ \A v \in Workers :
                      /\ Finished(v, "vod_ts")
                      /\ args[v].camera_name = c
                      /\ args[v].start_ts = a
                      /\ args[v].end_ts = b
                      => Rows(v) = Rows(r)

\* the recordings route and vod_ts asked for one window: both returned a
\* segment that only touches the window, at its end, and left another out
C26_Witness ==
    \E r, v \in Workers :
        /\ Listed(r)
        /\ Finished(v, "vod_ts")
        /\ args[v].camera_name = args[r].camera_name
        /\ args[v].start_ts = args[r].after
        /\ args[v].end_ts = args[r].before
        /\ \E S \in Rows(r) : S.end_time = args[r].after
        /\ recordings \ Rows(r) # {}

\* for a window with start > end the two tests do differ
C26_MalformedWindowsDiffer ==
    \E r \in Workers :
        /\ Finished(r, "recordings")
        /\ args[r].after > args[r].before
        /\ Rows(r) # vod_ts_query(args[r].camera_name, args[r].after, args[r].before)

\* ------------------------------------------- claims: the event window
\* C28: for every event, the window (start_ts, end_ts) event_preview
\* derives satisfies start_ts <= end_ts <= start_ts + 20 seconds, also for
\* an event that has no end_time yet.
C28_WindowWithinTwentySeconds ==
    \A r \in Workers :
        args[r].handler = "event_preview" /\ local[r].mode # "none" =>
            /\ local[r].start_ts.value <= local[r].end_ts.value
            /\ local[r].end_ts.value <= local[r].start_ts.value + Hundredths(20)

\* ------------------------------------------- claims: samples and buckets
\* the samples of a bucket that are not its zero boundary samples
RecordingSamples(bucket, k) ==
    { i \in DOMAIN bucket :
        /\ bucket[i] # Sample(k, 0, FALSE)
        /\ bucket[i] # Sample(k + 59 * SecondsPerMinute + 59, 0, FALSE) }

RECURSIVE CountSamples(_, _)
CountSamples(hours, K) ==
    IF K = {} THEN 0
    ELSE LET k == CHOOSE j \in K : TRUE
         IN  Cardinality(RecordingSamples(hours[k], k))
               + CountSamples(hours, K \ {k})

\* C29: in hourly_timeline_activity every recording contributes exactly one
\* sample, at start_time + duration / 2, and the sample is stored in the
\* hour bucket that contains it: a sample at time t under bucket key k has
\* k <= t < k + 3600 once the timezone offset is applied, whatever the gaps
\* between the recordings.
C29_SampleInItsHourBucket ==
    \A r \in Workers :
        ActivityDone(r) =>
            LET hours == local[r].hours
                shift == args[r].minute_offset * SecondsPerMinute
            IN  /\ CountSamples(hours, DOMAIN hours) = Cardinality(Processed(r))
                /\ \A S \in Processed(r) :
                      \E k \in DOMAIN hours :
                         \E i \in RecordingSamples(hours[k], k) :
                            hours[k][i].date = S.start_time + S.duration \div 2
                /\ \A k \in DOMAIN hours :
                      \A i \in RecordingSamples(hours[k], k) :
                         /\ k <= hours[k][i].date + shift
                         /\ hours[k][i].date + shift < k + SecondsPerHour

\* the same with no timezone offset and the first cursor on the hour
C29_SampleInItsHourBucketUtc ==
    \A r \in Workers :
        ActivityDone(r) /\ args[r].minute_offset = 0
          /\ args[r].after % SecondsPerHour = 0 =>
            \A k \in DOMAIN local[r].hours :
                \A i \in RecordingSamples(local[r].hours[k], k) :
                    /\ k <= local[r].hours[k][i].date
                    /\ local[r].hours[k][i].date < k + SecondsPerHour

\* one sample for each recording, wherever it was stored
C29_OneSampleEach ==
    \A r \in Workers :
        ActivityDone(r) =>
            CountSamples(local[r].hours, DOMAIN local[r].hours)
                = Cardinality(Processed(r))

\* ----------------------------------------------------- preview_thumbnail
\* frame_time as the URL gives it: a number written with a fraction, or
\* whole seconds written without
ThumbnailTimes ==
    { Float(10000), Float(10055), Float(13100),
      [value |-> 10000, is_int |-> TRUE] }

ThumbnailCameras == { "cam1", "cam10", "ghost" }

\* the for loop of lines 2312-2316: the first file, in sorted order, that
\* starts with file_start and is above file_check; <<>> stands for None
RECURSIVE selected_preview(_, _, _)
selected_preview(files, start, file_check) ==
    IF files = <<>> THEN <<>>
    ELSE IF startswith(Head(files), start) /\ str_less(file_check, Head(files))
    THEN Head(files)
    ELSE selected_preview(Tail(files), start, file_check)

\* GET /preview/<camera_name>/<frame_time>/thumbnail.jpg: the bytes of the
\* file selected, named here by the file
preview_thumbnail(r, camera_name, frame_time) ==
    /\ pc[r] = "idle"
    /\ LET file_check == frame_file(camera_name, frame_time)
           selected == selected_preview(sorted_listdir, file_start(camera_name),
                                        file_check)
       IN  /\ local' = [local EXCEPT ![r] = [selected_preview |-> selected]]
           /\ resp' = [resp EXCEPT ![r] =
                 IF selected = <<>>
                 THEN NotFound("Could not find valid preview jpg.")
                 ELSE [status |-> 200, body |-> selected,
                       content_type |-> "image/jpeg"]]
    /\ args' = [args EXCEPT ![r] = [handler |-> "preview_thumbnail",
                                    camera_name |-> camera_name,
                                    frame_time |-> frame_time]]
    /\ pc' = [pc EXCEPT ![r] = "done"]
    /\ UNCHANGED <<stores, recordings, previews, cache, toolRuns>>

InitThumbnail ==
    /\ RequestInit
    /\ FilesInit
    /\ recordings = {}
    /\ previews = {}
    /\ timeline = {}
    /\ events = {}
    /\ database = [w \in Workers |-> [closed |-> TRUE]]
    /\ preview_dir \in AtMost(FrameUniverse, MaxSegs)

NextThumbnail ==
    \E r \in Workers, c \in ThumbnailCameras, t \in ThumbnailTimes :
        preview_thumbnail(r, c, t)

SpecThumbnail == InitThumbnail /\ [][NextThumbnail]_vars

\* ------------------------------------------- claims: preview_thumbnail
\* the stills on disk of a camera, as files
StillsOf(camera) ==
    { frame_file(camera, Float(t)) : t \in FrameStamps } \cap preview_dir

\* those whose time is strictly after t
StillsAfter(camera, t) ==
    { frame_file(camera, Float(u)) : u \in { v \in FrameStamps : v > t } }
       \cap preview_dir

\* C27: preview_thumbnail returns the first still, in sorted file name
\* order, of the camera asked for whose time is strictly after frame_time,
\* and 404 when the camera has none; a still of another camera is never
\* returned, not even of a camera whose name begins with the name asked
\* for.
C27_OwnCameraNextStill ==
    \A r \in Workers :
        Finished(r, "preview_thumbnail") =>
            LET camera == args[r].camera_name
                after == StillsAfter(camera, args[r].frame_time.value)
            IN  /\ after = {} => resp[r].status = 404
                /\ after # {} =>
                      /\ resp[r].status = 200
                      /\ resp[r].body \in after
                      /\ \A f \in after : ~str_less(f, resp[r].body)
                /\ resp[r].status = 200 => resp[r].body \in StillsOf(camera)

\* the same for frame times written with a fraction and with no camera on
\* disk whose name begins with the name asked for
C27_OwnCameraNextStillNoPrefix ==
    \A r \in Workers :
        /\ Finished(r, "preview_thumbnail")
        /\ ~args[r].frame_time.is_int
        /\ \A f \in preview_dir : startswith(f, file_start(args[r].camera_name))
                                     => f \in StillsOf(args[r].camera_name)
        => LET after == StillsAfter(args[r].camera_name, args[r].frame_time.value)
           IN  /\ after = {} => resp[r].status = 404
               /\ after # {} =>
                     /\ resp[r].status = 200
                     /\ resp[r].body \in after
                     /\ \A f \in after : ~str_less(f, resp[r].body)

\* a request for cam1 answered with a still of cam10
C27_OtherCameraStill ==
    \E r \in Workers :
        /\ Finished(r, "preview_thumbnail")
        /\ args[r].camera_name = "cam1"
        /\ resp[r].status = 200
        /\ resp[r].body \in StillsOf("cam10")

\* ------------------------------------------------------------- vod_event
\* event.end_time of an event still in progress
None == -1

\* an Event row as vod_event reads it; times in ticks
VodEventRow(id, camera, s, e, has_clip) ==
    [id |-> id, camera |-> camera, start_time |-> s, end_time |-> e,
     has_clip |-> has_clip]

\* one event of cam1 from 250 s: ended at 650 s, or still in progress
VodEvents ==
    { VodEventRow("e1", "cam1", Sec(250), e, h) :
          e \in {Sec(650), None}, h \in BOOLEAN }

\* datetime.now().timestamp(): less and more than 5 minutes after the
\* event's start
VodNows == { Sec(500), Sec(900) }

\* os.path.join(CLIPS_DIR, f"{event.camera}-{event.id}.mp4")
clip_path(event) == <<"clips", event.camera, event.id, "mp4">>

\* type(x) == tuple.  What vod_ts returns was built by make_response, a
\* Response object, which the records with a status stand for.
is_tuple(x) == "status" \notin DOMAIN x

\* lines 2374-2379: the test that guards Event.update(has_clip=False)
vod_event_not_found(event, now, vod_response) ==
    /\ event.start_time < now - Sec(300)
    /\ is_tuple(vod_response)
    /\ Len(vod_response) = 2
    /\ vod_response[2] = 404

\* Event.update(has_clip=False).where(Event.id == id).execute()
update_has_clip(id) ==
    { IF e.id = id THEN [e EXCEPT !.has_clip = FALSE] ELSE e : e \in events }

\* lines 2383-2391: the manifest of the event's own clip file
vod_event_clip(event) ==
    IF event.end_time = None THEN UnhandledException("TypeError")
    ELSE [status |-> 200,
          body |-> [cache |-> TRUE,
                    discontinuity |-> FALSE,
                    durations |-> <<IntMs(event.end_time - event.start_time)>>,
                    sequences |-> << [clips |->
                        << [type |-> "source", path |-> clip_path(event)] >>] >>]]

\* GET /vod/event/<id>, served at time now
vod_event(r, id, now) ==
    /\ pc[r] = "idle"
    /\ args' = [args EXCEPT ![r] = [handler |-> "vod_event", id |-> id, now |-> now]]
    /\ pc' = [pc EXCEPT ![r] = "done"]
    /\ IF ~ \E e \in events : e.id = id
       THEN /\ resp' = [resp EXCEPT ![r] = NotFound("Event not found.")]
            /\ local' = [local EXCEPT ![r] = [branch |-> "no_event"]]
            /\ UNCHANGED events
       ELSE LET event == CHOOSE e \in events : e.id = id
            IN  IF ~event.has_clip
                THEN /\ resp' = [resp EXCEPT ![r] = NotFound("Recordings not available.")]
                     /\ local' = [local EXCEPT ![r] = [branch |-> "no_clip"]]
                     /\ UNCHANGED events
                ELSE IF clip_path(event) \notin clips_dir
                THEN LET end_ts == IF event.end_time = None THEN now
                                   ELSE event.end_time
                     IN  \E rows \in order_by_start_time(
                                vod_ts_query(event.camera, event.start_time, end_ts)),
                            cacheable \in BOOLEAN :
                           LET vod_response == vod_ts_response(rows, end_ts, cacheable)
                           IN  /\ resp' = [resp EXCEPT ![r] = vod_response]
                               /\ local' = [local EXCEPT ![r] = [branch |-> "vod_ts"]]
                               /\ events' =
                                    IF vod_event_not_found(event, now, vod_response)
                                    THEN update_has_clip(id)
                                    ELSE events
                ELSE /\ resp' = [resp EXCEPT ![r] = vod_event_clip(event)]
                     /\ local' = [local EXCEPT ![r] = [branch |-> "clip_file"]]
                     /\ UNCHANGED events
    /\ UNCHANGED <<recordings, previews, cache, toolRuns, timeline, preview_dir,
                   database, clips_dir, export_dir>>

InitVodEvent ==
    /\ RequestInit
    /\ recordings \in SUBSET ScenarioSegments
    /\ previews = {}
    /\ timeline = {}
    /\ preview_dir = {}
    /\ database = [w \in Workers |-> [closed |-> TRUE]]
    /\ export_dir = <<>>
    /\ events \in AtMost(VodEvents, 1)
    /\ clips_dir \in SUBSET { clip_path(e) : e \in VodEvents }

NextVodEvent ==
    \E r \in Workers, id \in {"e1", "e2"}, now \in VodNows : vod_event(r, id, now)

SpecVodEvent == InitVodEvent /\ [][NextVodEvent]_vars

\* ------------------------------------------------- claims: vod_event
\* the case in which the claim has the event changed, for the request r
\* makes in this step: the clip file is absent, the manifest lookup
\* answers 404 and the event started more than 300 seconds before now
C24_Case(r) ==
    \E e \in events :
        /\ e.id = args'[r].id
        /\ e.has_clip
        /\ clip_path(e) \notin clips_dir
        /\ resp'[r].status = 404
        /\ e.start_time < args'[r].now - Sec(300)

C24_Request(r) ==
    pc[r] = "idle" /\ pc'[r] = "done" /\ args'[r].handler = "vod_event"

\* C24: vod_event changes the stored event, setting has_clip to false,
\* when the event's clip file is absent, the manifest lookup returned 404
\* and the event started more than 300 seconds ago, and only then; in every
\* other case (manifest found, event newer than 5 minutes, clip file
\* present, event missing) the stored event is left unchanged.
C24_HasClipClearedExactlyThen ==
    [][ \A r \in Workers :
          C24_Request(r) =>
              /\ events' # events => C24_Case(r)
              /\ C24_Case(r) =>
                    \A e \in events' : e.id = args'[r].id => ~e.has_clip
              /\ events' # events => events' = update_has_clip(args'[r].id) ]_vars

\* what the code does: no request changes the stored event
C24_EventNeverChanged == [][events' = events]_vars

\* an event older than 5 minutes, without clip file, whose manifest lookup
\* was answered 404, still has has_clip set
C24_StillHasClip ==
    \E r \in Workers :
        /\ Finished(r, "vod_event")
        /\ local[r].branch = "vod_ts"
        /\ resp[r].status = 404
        /\ \E e \in events :
              /\ e.id = args[r].id
              /\ e.has_clip
              /\ e.start_time < args[r].now - Sec(300)

\* --------------------------------------------------------- export_rename
\* ".mp4"
DotMp4 == <<46, 109, 112, 52>>

endswith(s, suffix) ==
    Len(s) >= Len(suffix)
      /\ SubSeq(s, Len(s) - Len(suffix) + 1, Len(s)) = suffix

export_filename_check_extension(filename) ==
    IF endswith(filename, DotMp4) THEN filename ELSE filename \o DotMp4

\* ":", "_", A-Z, a-z, 0-9: the characters the pattern r"[^:_A-Za-z0-9]"
\* lets through
ExportChars == {58, 95} \cup (65 .. 90) \cup (97 .. 122) \cup (48 .. 57)

\* "in_progress."
InProgressPrefix == <<105, 110, 95, 112, 114, 111, 103, 114, 101, 115, 115, 46>>

export_filename_is_valid(filename) ==
    ~ \/ \E i \in DOMAIN filename : filename[i] \notin ExportChars
      \/ startswith(filename, InProgressPrefix)

\* the path under EXPORT_DIR a name of the URL stands for
export_file(name) ==
    secure_filename(export_filename_check_extension(name))

\* names of the URL: "a", "b", "t", "t:" (which sanitizes to the file of
\* "t") and "t.t" (an illegal new name)
ExportCurrentNames == { <<97>>, <<98>> }

ExportNewNames == { <<116>>, <<116, 58>>, <<116, 46, 116>> }

\* the exports on disk at the start: each file holds its own recording
ExportFiles == { export_file(n) : n \in ExportCurrentNames \cup {<<116>>} }

\* lines 2469-2489: the source must exist and the new name be legal
export_rename_begin(r, file_name_current, file_name_new) ==
    /\ pc[r] = "idle"
    /\ args' = [args EXCEPT ![r] = [handler |-> "export_rename",
                                    file_name_current |-> file_name_current,
                                    file_name_new |-> file_name_new]]
    /\ LET file_current == export_file(file_name_current)
       IN  IF file_current \notin DOMAIN export_dir
           THEN /\ resp' = [resp EXCEPT ![r] = NotFound("not found.")]
                /\ pc' = [pc EXCEPT ![r] = "done"]
                /\ local' = [local EXCEPT ![r] =
                      [file_current |-> file_current, file_new |-> <<>>,
                       alone |-> \A w \in Workers \ {r} :
                                    pc[w] \in {"idle", "done"}]]
           ELSE IF ~export_filename_is_valid(file_name_new)
           THEN /\ resp' = [resp EXCEPT ![r] =
                      [status |-> 400,
                       body |-> [success |-> FALSE,
                                 message |-> "contains illegal characters."]]]
                /\ pc' = [pc EXCEPT ![r] = "done"]
                /\ local' = [local EXCEPT ![r] =
                      [file_current |-> file_current, file_new |-> <<>>,
                       alone |-> \A w \in Workers \ {r} :
                                    pc[w] \in {"idle", "done"}]]
           ELSE /\ local' = [local EXCEPT ![r] =
                      [file_current |-> file_current,
                       file_new |-> export_file(file_name_new),
                       alone |-> \A w \in Workers \ {r} :
                                    pc[w] \in {"idle", "done"}]]
                /\ pc' = [pc EXCEPT ![r] = "check_new"]
                /\ UNCHANGED resp
    /\ UNCHANGED <<stores, recordings, previews, cache, toolRuns>>

\* lines 2494-2498: os.path.exists(file_new)
export_rename_check_new(r) ==
    /\ pc[r] = "check_new"
    /\ IF local[r].file_new \in DOMAIN export_dir
       THEN /\ resp' = [resp EXCEPT ![r] =
                  [status |-> 400,
                   body |-> [success |-> FALSE, message |-> "already exists."]]]
            /\ pc' = [pc EXCEPT ![r] = "done"]
       ELSE /\ pc' = [pc EXCEPT ![r] = "rename"]
            /\ UNCHANGED resp
    /\ UNCHANGED <<stores, recordings, previews, cache, toolRuns, args, local>>

\* os.rename(src, dst): dst is replaced when it exists; without src it
\* raises FileNotFoundError
os_rename(dir, src, dst) ==
    [ f \in (DOMAIN dir \ {src}) \cup {dst} |-> IF f = dst THEN dir[src] ELSE dir[f] ]

\* lines 2500-2509
export_rename_rename(r) ==
    /\ pc[r] = "rename"
    /\ IF local[r].file_current \notin DOMAIN export_dir
       THEN /\ resp' = [resp EXCEPT ![r] = UnhandledException("FileNotFoundError")]
            /\ UNCHANGED export_dir
       ELSE /\ export_dir' = os_rename(export_dir, local[r].file_current,
                                       local[r].file_new)
            /\ resp' = [resp EXCEPT ![r] =
                  [status |-> 200,
                   body |-> [success |-> TRUE,
                             message |-> "Successfully renamed file."]]]
    /\ pc' = [pc EXCEPT ![r] = "done"]
    /\ UNCHANGED <<recordings, previews, cache, toolRuns, args, local, timeline,
                   events, preview_dir, database, clips_dir>>

InitExport ==
    /\ RequestInit
    /\ recordings = {}
    /\ previews = {}
    /\ timeline = {}
    /\ events = {}
    /\ preview_dir = {}
    /\ clips_dir = {}
    /\ database = [w \in Workers |-> [closed |-> TRUE]]
    /\ \E S \in SUBSET ExportFiles : export_dir = [ f \in S |-> f ]

NextExport ==
    \E r \in Workers :
        \/ \E c \in ExportCurrentNames, n \in ExportNewNames :
              export_rename_begin(r, c, n)
        \/ export_rename_check_new(r)
        \/ export_rename_rename(r)

SpecExport == InitExport /\ [][NextExport]_vars

\* ------------------------------------------------ claims: export_rename
\* a step of export_rename by worker r
ExportStep(r) == pc'[r] # pc[r] /\ args'[r].handler = "export_rename"

\* no file that stays has its content replaced, and every recording on disk
\* before is on disk after
NothingOverwritten ==
    /\ \A f \in DOMAIN export_dir \cap DOMAIN export_dir' :
          export_dir'[f] = export_dir[f]
    /\ \A f \in DOMAIN export_dir :
          \E g \in DOMAIN export_dir' : export_dir'[g] = export_dir[f]

\* C25: export_rename never overwrites an existing file: with the source
\* missing it answers 404, with illegal characters in the new name 400,
\* with the target already there 400, and in these three cases the export
\* directory is unchanged; only otherwise is the source renamed to the
\* target.  This holds also when two renames to one target run
\* concurrently.
C25_NeverOverwrites ==
    [][ \A r \in Workers :
          ExportStep(r) =>
              /\ NothingOverwritten
              /\ resp'[r].status \in {0, 200, 400, 404}
              /\ resp'[r].status \in {400, 404} => export_dir' = export_dir
              /\ export_dir' # export_dir =>
                    /\ resp'[r].status = 200
                    /\ local[r].file_new \notin DOMAIN export_dir
                    /\ export_dir' = os_rename(export_dir, local[r].file_current,
                                               local[r].file_new) ]_vars

\* r's request overlaps no other: alone is whether no request was being
\* served when a request began
InSequence(r) ==
    /\ local'[r].alone
    /\ \A w \in Workers \ {r} :
          pc[w] = "idle" \/ (pc[w] = "done" /\ local[w].alone)

\* the same for requests served one after the other
C25_NeverOverwritesInSequence ==
    [][ \A r \in Workers :
          ExportStep(r) /\ InSequence(r) =>
              /\ NothingOverwritten
              /\ resp'[r].status \in {0, 200, 400, 404}
              /\ resp'[r].status \in {400, 404} => export_dir' = export_dir
              /\ export_dir' # export_dir =>
                    /\ resp'[r].status = 200
                    /\ local[r].file_new \notin DOMAIN export_dir ]_vars

\* two renames of different files to one target, both answered 200: one
\* of the two recordings is gone
C25_RecordingLost ==
    /\ \A r \in Workers : Finished(r, "export_rename") /\ resp[r].status = 200
    /\ \E r, w \in Workers :
          /\ local[r].file_current # local[w].file_current
          /\ local[r].file_new = local[w].file_new
    /\ Cardinality({ export_dir[f] : f \in DOMAIN export_dir }) = 1

\* a rename answered with an unhandled FileNotFoundError
C25_SourceGone ==
    \E r \in Workers :
        Finished(r, "export_rename") /\ resp[r].status = 500

====
